---- MODULE Spec2Model ----
(***************************************************************************)
(* Tool governance pipeline of governed-ai-native-ide: the hook engine     *)
(* (src/hooks/hookEngine.ts), the command classifier                       *)
(* (src/hooks/commandClassifier.ts), the scope-and-lock and HITL pre-hooks *)
(* (src/hooks/preHooks/hitl.ts) and the post-hooks.                        *)
(*                                                                         *)
(* One executeTool call is a process whose steps are the pieces of code    *)
(* between two awaits; several calls interleave at those awaits.           *)
(***************************************************************************)
EXTENDS Integers, Sequences, FiniteSets, TLC

VARIABLES preHooks, postHooks, defaultHooksRegistered, lastRegistration,
          approvedScopeExpansions, intentScopeCache,
          files, disk, intentMapCache, loads, ledger, calls, task, handshake, fnInput, fnOutput

vars == <<preHooks, postHooks, defaultHooksRegistered, lastRegistration,
          approvedScopeExpansions, intentScopeCache,
          files, disk, intentMapCache, loads, ledger, calls, task, handshake, fnInput, fnOutput>>

(***************************************************************************)
(* Bounds of the model.                                                    *)
(***************************************************************************)
\* in SpecLive the registries are written until a call has made this many steps
MaxLiveEvents == 4
\* file contents are the numbers 0..MaxContent
MaxContent == 2
\* at most MaxRaceCalls executeTool calls overlap in SpecRace
MaxRaceCalls == 2
\* the texts computeContentHash is applied to have at most MaxTextLen characters
MaxTextLen == 4
\* the globs and the paths matchesAnyGlob is applied to have at most MaxGlobLen
\* and MaxPathLen characters
MaxGlobLen == 4
MaxPathLen == 3
\* select_active_intent is called while the Task counts fewer mistakes in a row
MaxMistakes == 2

(***************************************************************************)
(* Values.  An optional value is a sequence of length 0 or 1.              *)
(***************************************************************************)
None == <<>>
Some(v) == <<v>>
IsSome(o) == Len(o) > 0
Get(o) == o[1]

\* a path or a glob is a sequence of one-character strings
PathA == <<"a", "/", "x">>
PathB == <<"b", "/", "y">>
GlobA == <<"a", "/", "*", "*">>
GlobB == <<"b", "/", "*", "*">>

\* String.prototype.trim on the observed_content_hash strings of the model
Trim(s) == IF s = " " THEN "" ELSE s

RECURSIVE SeqToSet(_)
SeqToSet(s) == IF s = <<>> THEN {} ELSE {Head(s)} \cup SeqToSet(Tail(s))

\* [...new Set(s)]: the elements of s, first occurrence kept, in order
RECURSIVE Dedupe(_)
Dedupe(s) ==
    IF s = <<>> THEN <<>>
    ELSE LET init == Dedupe(SubSeq(s, 1, Len(s) - 1))
             last == s[Len(s)]
         IN  IF last \in SeqToSet(init) THEN init ELSE Append(init, last)

(***************************************************************************)
(* Command classifier                                                      *)
(***************************************************************************)
SAFE_TOOLS == {"read_file", "stat", "list", "list_files", "read_command_output"}
DESTRUCTIVE_TOOLS ==
    {"write_file", "write_to_file", "delete", "exec_bash", "execute_command",
     "apply_diff", "apply_patch", "edit", "search_and_replace", "search_replace",
     "edit_file"}

\* the tool names a caller submits in the model
ToolNames ==
    {"read_file", "list_files", "write_to_file", "write_file", "apply_diff",
     "apply_patch", "edit", "search_and_replace", "search_replace", "edit_file",
     "execute_command", "exec_bash", "delete", "use_mcp_tool"}

\* String.prototype.startsWith
StartsWith(t, prefix) == Len(t) >= Len(prefix) /\ SubSeq(t, 1, Len(prefix)) = prefix

normalizeToolName(toolName) ==
    IF toolName = "write_file" THEN "write_to_file"
    ELSE IF toolName = "exec_bash" THEN "execute_command"
    ELSE toolName

\* payload.patch lines "*** Add/Update/Delete File: <path>" are the payload's
\* patchFiles; the keys path and file_path are optional strings
extractAffectedFiles(toolName, payload) ==
    Dedupe(payload.path \o payload.file_path
           \o (IF toolName = "apply_patch" THEN payload.patchFiles ELSE <<>>))

\* classifyCommand looking the name up in the two lists only
classifyCommandListedOnly(toolName, payload) ==
    LET normalizedToolName == normalizeToolName(toolName)
    IN  [normalizedToolName |-> normalizedToolName,
         risk |-> IF normalizedToolName \in DESTRUCTIVE_TOOLS THEN "DESTRUCTIVE" ELSE "SAFE",
         affectedFiles |-> extractAffectedFiles(normalizedToolName, payload)]

classifyCommand(toolName, payload) ==
    LET normalizedToolName == normalizeToolName(toolName)
        risk == IF \/ normalizedToolName \in SAFE_TOOLS
                   \/ StartsWith(normalizedToolName, "read_")
                   \/ StartsWith(normalizedToolName, "list")
                THEN "SAFE"
                ELSE IF \/ normalizedToolName \in DESTRUCTIVE_TOOLS
                        \/ StartsWith(normalizedToolName, "write")
                        \/ StartsWith(normalizedToolName, "delete")
                     THEN "DESTRUCTIVE"
                     ELSE "SAFE"
    IN  [normalizedToolName |-> normalizedToolName,
         risk |-> risk,
         affectedFiles |-> extractAffectedFiles(normalizedToolName, payload)]

(***************************************************************************)
(* Scope globs                                                             *)
(***************************************************************************)
toPosix(input) == [i \in 1..Len(input) |-> IF input[i] = "\\" THEN "/" ELSE input[i]]

\* globToRegex: the characters .+^${}()|[]\ are escaped and so matched
\* literally, "**" becomes ".*", a remaining "*" becomes "[^/]*"; every other
\* character goes into the regex as it is, and there "?" is a quantifier.
\* The regex is a sequence of tokens: ".*", "[^/]*", "?", or a literal character.
RECURSIVE globToRegex(_)
globToRegex(glob) ==
    IF glob = <<>> THEN <<>>
    ELSE IF Len(glob) >= 2 /\ glob[1] = "*" /\ glob[2] = "*"
         THEN <<".*">> \o globToRegex(SubSeq(glob, 3, Len(glob)))
    ELSE IF glob[1] = "*"
         THEN <<"[^/]*">> \o globToRegex(Tail(glob))
    ELSE <<glob[1]>> \o globToRegex(Tail(glob))

\* the number of "?" tokens that follow token i of the regex
RECURSIVE Quantifiers(_, _)
Quantifiers(re, i) ==
    IF i < Len(re) /\ re[i + 1] = "?" THEN 1 + Quantifiers(re, i + 1) ELSE 0

\* new RegExp(...) accepts the regex: every "?" has something to repeat, a
\* character at most "??" behind it and a starred token at most "?"
RegexValid(re) ==
    /\ re = <<>> \/ re[1] # "?"
    /\ \A i \in 1..Len(re) :
           re[i] # "?" => Quantifiers(re, i) <= (IF re[i] \in {".*", "[^/]*"} THEN 1 ELSE 2)

\* RegExp("^...$").test(p), from token i of the regex and character j of p
RECURSIVE RegexTest(_, _, _, _)
RegexTest(re, i, p, j) ==
    IF i > Len(re) THEN j > Len(p)
    ELSE LET after == i + 1 + Quantifiers(re, i)
         IN  IF re[i] = ".*"
             THEN \/ RegexTest(re, after, p, j)
                  \/ j <= Len(p) /\ RegexTest(re, i, p, j + 1)
             ELSE IF re[i] = "[^/]*"
             THEN \/ RegexTest(re, after, p, j)
                  \/ j <= Len(p) /\ p[j] # "/" /\ RegexTest(re, i, p, j + 1)
             ELSE \/ j <= Len(p) /\ p[j] = re[i] /\ RegexTest(re, after, p, j + 1)
                  \/ Quantifiers(re, i) > 0 /\ RegexTest(re, after, p, j)

matchesAnyGlob(relativePath, globs) ==
    LET p == toPosix(relativePath)
    IN  \E k \in 1..Len(globs) : RegexTest(globToRegex(toPosix(globs[k])), 1, p, 1)

isMutatingTool(toolName) ==
    toolName \in {"write_to_file", "apply_diff", "apply_patch", "edit",
                  "search_and_replace", "search_replace", "edit_file"}


(***************************************************************************)
(* Content hasher, called on a whole file (no range, no inserted content): *)
(* "sha256:" and the digest of the canonical rendering of the content.     *)
(* A file content is a number; the contents 2k and 2k+1 differ only in     *)
(* formatting or comments and have the same canonical rendering k.         *)
(***************************************************************************)
computeContentHash(fileContent) == "sha256:" \o ToString(fileContent \div 2)

\* prettier --write: the canonical formatting of a content
Format(fileContent) == 2 * (fileContent \div 2)

Contents == 0..MaxContent

(***************************************************************************)
(* Sessions, payloads, messages                                            *)
(***************************************************************************)
Cwd == <<"/", "w">>

\* HookSession: getActiveIntentId / hasActiveIntentContext read intent
Session(intent, cwd, umc) == [intent |-> intent, cwd |-> cwd, userMessageContent |-> umc]

Payload(path, file_path, patchFiles, content, observed, expansion) ==
    [path |-> path, file_path |-> file_path, patchFiles |-> patchFiles,
     content |-> content, observed_content_hash |-> observed,
     request_scope_expansion |-> expansion, _curated_context_key |-> None]

\* a string pushed through pushToolResult, parsed: the JSON objects of the
\* engine and the hooks, or a plain text reason (type "text")
Msg(type, code) ==
    [type |-> type, code |-> code, hook_name |-> None, file_path |-> None,
     owned_scope |-> <<>>, observed_content_hash |-> None,
     current_content_hash |-> None]

\* a pushed string is truthy unless it is the empty string
Truthy(msg) == ~(msg.type = "text" /\ msg.code = "")

\* HookDecision; a hook that returns nothing settles with None
Decision(allow, reason, alreadyReported) ==
    [allow |-> allow, reason |-> reason, alreadyReported |-> alreadyReported]
Allow == Some(Decision(TRUE, None, None))

CRITICAL_PRE_HOOKS == {"blockIfNoIntent", "scopeAndLockPreHook", "hitlPreHook"}

HookEntry(name, fn) == [name |-> name, fn |-> fn]

\* The state of one executeTool call: its position (pc, and hpc inside the
\* running hook), its arguments, the locals of executeTool and of the running
\* hook, and what it has done: events (start, end and throw of every hook and
\* of the execute closure), pushes (pushToolResult), handled (handleError).
\* preSnap, postSnap, filesSnap and payloadSnap record the registries, the
\* files and the payload at the start of the call, expansionApproved that the human approved an expansion.
\* postSeen records the postContext each post-hook was called with, response
\* what the human answered to the dialog of hitlPreHook.
IdleCall ==
    [pc |-> "idle", toolName |-> "",
     payload |-> Payload(None, None, <<>>, None, None, None),
     session |-> Session(None, None, FALSE),
     preIdx |-> 0, postIdx |-> 0, cur |-> HookEntry("", ""), hpc |-> "",
     decision |-> None, thrown |-> FALSE,
     allowed |-> TRUE, blockedReason |-> None, alreadyReported |-> FALSE,
     result |-> None, error |-> None,
     effectiveScope |-> <<>>, fileIdx |-> 0, statMtime |-> 0, fileRecords |-> <<>>,
     deps |-> <<>>, capabilityThrew |-> None,
     events |-> <<>>, pushes |-> <<>>, handled |-> <<>>, userMessages |-> 0,
     response |-> None, postSeen |-> <<>>, preSnap |-> <<>>, postSnap |-> <<>>, filesSnap |-> <<>>,
     payloadSnap |-> Payload(None, None, <<>>, None, None, None),
     expansionApproved |-> FALSE, outcome |-> ""]

\* the invocation's classification: classifyCommand(context.toolName, context.payload)
Classification(cr) == classifyCommand(cr.toolName, cr.payload)

\* context.pushToolResult?.(msg)
Push(cr, msg) == [cr EXCEPT !.pushes = Append(@, msg)]

\* the running hook's promise resolves with decision d
Settle(cr, d) ==
    [cr EXCEPT !.hpc = "ret", !.decision = d,
               !.events = Append(@, <<"end", cr.cur.name>>)]

\* the running hook's promise rejects
Raise(cr) ==
    [cr EXCEPT !.hpc = "thrown", !.thrown = TRUE,
               !.events = Append(@, <<"throw", cr.cur.name>>)]


(***************************************************************************)
(* Post-hooks: the code of a post-hook from its call to its first await    *)
(***************************************************************************)
PostTestFns == {"okFn", "throwFn"}

\* traceAppenderPostHook with a call whose closure threw traced as well
traceAppenderPostHookTracesErrors(cr) ==
    LET classification == Classification(cr)
    IN  IF ~cr.allowed THEN Settle(cr, None)
        ELSE IF classification.risk # "DESTRUCTIVE" THEN Settle(cr, None)
        ELSE IF ~IsSome(cr.session.cwd) THEN Settle(cr, None)
        ELSE IF Len(classification.affectedFiles) = 0 THEN Settle(cr, None)
        ELSE [cr EXCEPT !.hpc = "trace_deps", !.fileRecords = <<>>]

traceAppenderPostHook(cr) ==
    LET classification == Classification(cr)
    IN  IF ~cr.allowed \/ IsSome(cr.error) THEN Settle(cr, None)
        ELSE IF classification.risk # "DESTRUCTIVE" THEN Settle(cr, None)
        ELSE IF ~IsSome(cr.session.cwd) THEN Settle(cr, None)
        ELSE IF Len(classification.affectedFiles) = 0 THEN Settle(cr, None)
        ELSE [cr EXCEPT !.hpc = "trace_deps", !.fileRecords = <<>>]

postprocessPostHook(cr) ==
    LET classification == Classification(cr)
    IN  IF ~cr.allowed \/ IsSome(cr.error) THEN Settle(cr, None)
        ELSE IF ~isMutatingTool(classification.normalizedToolName) THEN Settle(cr, None)
        ELSE IF ~IsSome(cr.session.cwd) THEN Settle(cr, None)
        ELSE [cr EXCEPT !.hpc = "pp_run"]

\* BeginPostHook with a postContext that lacks the error of the closure
BeginPostHookNoError(cr0, entry) ==
    LET cr == [cr0 EXCEPT !.cur = entry, !.hpc = "", !.decision = None, !.thrown = FALSE,
                          !.events = Append(@, <<"start", entry.name>>),
                          !.postSeen = Append(@, [hookName |-> entry.name,
                                                  allowed |-> cr0.allowed,
                                                  result |-> cr0.result,
                                                  error |-> None])]
    IN  CASE entry.fn = "traceAppender" -> traceAppenderPostHook(cr)
          [] entry.fn = "postprocessPostHook" -> postprocessPostHook(cr)
          [] OTHER -> [cr EXCEPT !.hpc = "await"]

\* await hookFn(postContext): the hook runs up to its first await
BeginPostHook(cr0, entry) ==
    LET cr == [cr0 EXCEPT !.cur = entry, !.hpc = "", !.decision = None, !.thrown = FALSE,
                          !.events = Append(@, <<"start", entry.name>>),
                          !.postSeen = Append(@, [hookName |-> entry.name,
                                                  allowed |-> cr0.allowed,
                                                  result |-> cr0.result,
                                                  error |-> cr0.error])]
    IN  CASE entry.fn = "traceAppender" -> traceAppenderPostHook(cr)
          [] entry.fn = "postprocessPostHook" -> postprocessPostHook(cr)
          [] OTHER -> [cr EXCEPT !.hpc = "await"]

\* executeTool, lines 210-216: the call ends, by a throw if the closure threw
EndCall(cr) ==
    [cr EXCEPT !.pc = "done", !.hpc = "",
               !.outcome = IF IsSome(cr.error) THEN "throw" ELSE "return"]

\* the for loop over postHooks.entries(): the entry after the one that ran
NextPost(cr) ==
    IF cr.postIdx + 1 <= Len(postHooks)
    THEN BeginPostHook([cr EXCEPT !.pc = "post", !.postIdx = @ + 1],
                       postHooks[cr.postIdx + 1])
    ELSE EndCall(cr)

\* AfterPre with the post-hooks run only for a call that was allowed
AfterPreSkipPost(cr) ==
    IF cr.allowed
    THEN [cr EXCEPT !.pc = "exec", !.hpc = "",
                    !.events = Append(@, <<"start", "execute">>)]
    ELSE IF IsSome(cr.blockedReason) /\ Truthy(Get(cr.blockedReason)) /\ ~cr.alreadyReported
         THEN EndCall(Push(cr, Get(cr.blockedReason)))
         ELSE EndCall(cr)

\* AfterPre pushing the reason of a denial that was already reported
AfterPreIgnoresReported(cr) ==
    IF cr.allowed
    THEN [cr EXCEPT !.pc = "exec", !.hpc = "",
                    !.events = Append(@, <<"start", "execute">>)]
    ELSE IF IsSome(cr.blockedReason) /\ Truthy(Get(cr.blockedReason))
         THEN NextPost(Push([cr EXCEPT !.postIdx = 0], Get(cr.blockedReason)))
         ELSE NextPost([cr EXCEPT !.postIdx = 0])

\* executeTool, lines 163-171: after the pre-hook loop
AfterPre(cr) ==
    IF cr.allowed
    THEN [cr EXCEPT !.pc = "exec", !.hpc = "",
                    !.events = Append(@, <<"start", "execute">>)]
    ELSE IF IsSome(cr.blockedReason) /\ Truthy(Get(cr.blockedReason)) /\ ~cr.alreadyReported
         THEN NextPost(Push([cr EXCEPT !.postIdx = 0], Get(cr.blockedReason)))
         ELSE NextPost([cr EXCEPT !.postIdx = 0])


(***************************************************************************)
(* Pre-hooks: the code of a pre-hook from its call to its first await      *)
(***************************************************************************)
PreTestFns == {"allowFn", "denyFn", "throwFn"}

logHook(cr) == Settle(cr, None)

\* blockIfNoIntent letting every tool through
blockIfNoIntentAllowAll(cr) == Settle(cr, Allow)

blockIfNoIntent(cr) ==
    LET requiresIntent == {"write_to_file", "apply_diff", "edit", "search_and_replace",
                           "search_replace", "edit_file", "apply_patch"}
        hasIntent == IsSome(cr.session.intent)
    IN  IF cr.toolName \notin requiresIntent THEN Settle(cr, Allow)
        ELSE IF hasIntent THEN Settle(cr, Allow)
        ELSE Settle(cr, Some(Decision(FALSE, Some(Msg("tool_error", "NO_ACTIVE_INTENT")), None)))

curateContextPreHook(cr) ==
    LET classification == Classification(cr)
    IN  IF ~isMutatingTool(classification.normalizedToolName) THEN Settle(cr, Allow)
        ELSE IF ~IsSome(cr.session.cwd) \/ ~cr.session.userMessageContent
             THEN Settle(cr, Allow)
        ELSE [cr EXCEPT !.hpc = "curate_read"]

\* hitlPreHook asking nothing
hitlPreHookAsksNothing(cr) == Settle(cr, Allow)

hitlPreHook(cr) ==
    IF Classification(cr).risk # "DESTRUCTIVE" THEN Settle(cr, Allow)
    ELSE [cr EXCEPT !.hpc = "hitl_ask"]

buildHitlRejectError(cr) == Msg("tool_error", "HITL_REJECT")

\* path.isAbsolute and toPosix(path.relative(cwd, file)) for the working
\* directory Cwd, one level below the root
isAbsolute(p) == Len(p) > 0 /\ p[1] = "/"

\* p.split("/") and segments.join("/")
RECURSIVE PathSegments(_)
PathSegments(p) ==
    IF \A i \in 1..Len(p) : p[i] # "/" THEN <<p>>
    ELSE LET k == CHOOSE i \in 1..Len(p) : p[i] = "/" /\ \A j \in 1..(i - 1) : p[j] # "/"
         IN  <<SubSeq(p, 1, k - 1)>> \o PathSegments(SubSeq(p, k + 1, Len(p)))

RECURSIVE JoinPath(_)
JoinPath(segments) ==
    IF segments = <<>> THEN <<>>
    ELSE IF Len(segments) = 1 THEN segments[1]
    ELSE segments[1] \o <<"/">> \o JoinPath(Tail(segments))

\* the segments of an absolute path with "", "." and ".." resolved; ".." at
\* the root stays at the root
RECURSIVE NormalizeSegments(_, _)
NormalizeSegments(segments, out) ==
    IF segments = <<>> THEN out
    ELSE IF Head(segments) \in {<<>>, <<".">>} THEN NormalizeSegments(Tail(segments), out)
    ELSE IF Head(segments) = <<".", ".">>
         THEN NormalizeSegments(Tail(segments),
                                IF out = <<>> THEN out ELSE SubSeq(out, 1, Len(out) - 1))
    ELSE NormalizeSegments(Tail(segments), Append(out, Head(segments)))

\* path.resolve(cwd, p): the absolute, normalized location p names
resolve(cwd, p) ==
    <<"/">> \o JoinPath(NormalizeSegments(
                   PathSegments(IF isAbsolute(p) THEN p ELSE cwd \o <<"/">> \o p), <<>>))

\* path.relative(cwd, p) for an absolute p: it resolves p and takes it from
\* cwd, which is one level below the root
relative(cwd, p) ==
    LET to == resolve(cwd, p)
    IN  IF to = cwd THEN <<>>
        ELSE IF Len(to) > Len(cwd) /\ SubSeq(to, 1, Len(cwd) + 1) = cwd \o <<"/">>
        THEN SubSeq(to, Len(cwd) + 2, Len(to))
        ELSE IF to = <<"/">> THEN <<".", ".">>
        ELSE <<".", ".">> \o to

\* where an affected file lies, taken from the working directory
ResolvedPath(cwd, affectedFile) == toPosix(relative(cwd, resolve(cwd, affectedFile)))
RelativePath(cwd, affectedFile) ==
    IF isAbsolute(affectedFile) THEN toPosix(relative(cwd, affectedFile))
    ELSE toPosix(affectedFile)

buildScopeViolationError(filePath, ownedScope) ==
    [Msg("tool_error", "SCOPE_VIOLATION") EXCEPT
        !.file_path = Some(filePath), !.owned_scope = ownedScope]

buildStaleFileError(filePath, observedHash, currentHash) ==
    [Msg("tool_error", "STALE_FILE") EXCEPT
        !.file_path = Some(filePath),
        !.observed_content_hash = Some(observedHash),
        !.current_content_hash = Some(currentHash)]

\* a request with a list additional_globs, inline or as a JSON string
parseScopeExpansionRequest(payload) == payload.request_scope_expansion

Denied == Some(Decision(FALSE, None, Some(TRUE)))

\* scopeAndLockPreHook, lines 296-315: up to the await of readIntentScopes,
\* which runs up to its await of fs.stat
scopeAndLockPreHook(cr) ==
    LET classification == Classification(cr)
    IN  IF ~isMutatingTool(classification.normalizedToolName) THEN Settle(cr, Allow)
        ELSE IF ~IsSome(cr.session.cwd) THEN Settle(cr, Allow)
        ELSE IF ~IsSome(cr.session.intent) \/ Len(classification.affectedFiles) = 0
             THEN Settle(cr, Allow)
        ELSE [cr EXCEPT !.hpc = "scope_stat"]

\* LockStart with the lock check never made
LockStartNoCheck(cr) == Settle(cr, Allow)

\* LockStart with a call that carries no observed hash refused
LockStartRequireHash(cr) ==
    LET observedHash == IF IsSome(cr.payload.observed_content_hash)
                        THEN Trim(Get(cr.payload.observed_content_hash)) ELSE ""
    IN  IF observedHash = ""
        THEN Settle(Push(cr, buildStaleFileError(<<>>, "", "")), Denied)
        ELSE [cr EXCEPT !.hpc = "lock_read", !.fileIdx = 1]

\* scopeAndLockPreHook, lines 365-374: the observed hash and the first read
LockStart(cr) ==
    LET observedHash == IF IsSome(cr.payload.observed_content_hash)
                        THEN Trim(Get(cr.payload.observed_content_hash)) ELSE ""
    IN  IF observedHash = "" THEN Settle(cr, Allow)
        ELSE [cr EXCEPT !.hpc = "lock_read", !.fileIdx = 1]

\* FirstOutOfScope looking at one file only
FirstOutOfScopeOneFile(cwd, affectedFiles, effectiveScope, i) ==
    IF i > Len(affectedFiles) THEN 0
    ELSE IF Len(effectiveScope) > 0
            /\ matchesAnyGlob(RelativePath(cwd, affectedFiles[i]), effectiveScope)
         THEN 0
         ELSE i

\* FirstOutOfScope with an empty scope taken as no restriction
FirstOutOfScopeEmptyIsOpen(cwd, affectedFiles, effectiveScope, i) ==
    LET outside == {k \in i..Len(affectedFiles) :
                       ~matchesAnyGlob(RelativePath(cwd, affectedFiles[k]), effectiveScope)}
    IN  IF Len(effectiveScope) = 0 \/ outside = {} THEN 0
        ELSE CHOOSE k \in outside : \A j \in outside : k <= j

\* the first affected file, from index i on, that is not in scope; 0 if none
RECURSIVE FirstOutOfScope(_, _, _, _)
FirstOutOfScope(cwd, affectedFiles, effectiveScope, i) ==
    IF i > Len(affectedFiles) THEN 0
    ELSE IF Len(effectiveScope) > 0
            /\ matchesAnyGlob(RelativePath(cwd, affectedFiles[i]), effectiveScope)
         THEN FirstOutOfScope(cwd, affectedFiles, effectiveScope, i + 1)
         ELSE i

\* scopeAndLockPreHook, lines 316-363: the scope check once readIntentScopes
\* has returned ownedScopeById, up to the next await or the return
ScopeCheck(cr, ownedScopeById) ==
    LET intentId == Get(cr.session.intent)
        cwd == Get(cr.session.cwd)
        affectedFiles == Classification(cr).affectedFiles
        baseOwnedScope == IF intentId \in DOMAIN ownedScopeById
                          THEN ownedScopeById[intentId] ELSE <<>>
        expansions == approvedScopeExpansions[intentId]
        effectiveScope == baseOwnedScope \o expansions
        out == FirstOutOfScope(cwd, affectedFiles, effectiveScope, 1)
        expansionRequest == parseScopeExpansionRequest(cr.payload)
        cr1 == [cr EXCEPT !.effectiveScope = effectiveScope, !.fileIdx = out]
    IN  IF out = 0 THEN LockStart(cr1)
        ELSE IF IsSome(expansionRequest) /\ Len(Get(expansionRequest).additional_globs) > 0
             THEN [cr1 EXCEPT !.hpc = "ask_expansion"]
        ELSE Settle(Push(cr1, buildScopeViolationError(
                                 RelativePath(cwd, affectedFiles[out]), effectiveScope)),
                    Denied)

\* decision = await hookFn(baseContext): the hook runs up to its first await
BeginPreHook(cr0, entry) ==
    LET cr == [cr0 EXCEPT !.cur = entry, !.hpc = "", !.decision = None, !.thrown = FALSE,
                          !.events = Append(@, <<"start", entry.name>>)]
    IN  CASE entry.fn = "logHook" -> logHook(cr)
          [] entry.fn = "curateContextPreHook" -> curateContextPreHook(cr)
          [] entry.fn = "blockIfNoIntent" -> blockIfNoIntent(cr)
          [] entry.fn = "scopeAndLockPreHook" -> scopeAndLockPreHook(cr)
          [] entry.fn = "hitlPreHook" -> hitlPreHook(cr)
          [] OTHER -> [cr EXCEPT !.hpc = "await"]

\* NextPre with the entries visited from the last to the first
NextPreReversed(cr) ==
    IF cr.preIdx + 1 <= Len(preHooks)
    THEN BeginPreHook([cr EXCEPT !.pc = "pre", !.preIdx = @ + 1],
                      preHooks[Len(preHooks) - cr.preIdx])
    ELSE AfterPre(cr)

\* the for loop over preHooks.entries(): the entry after the one that ran
NextPre(cr) ==
    IF cr.preIdx + 1 <= Len(preHooks)
    THEN BeginPreHook([cr EXCEPT !.pc = "pre", !.preIdx = @ + 1], preHooks[cr.preIdx + 1])
    ELSE AfterPre(cr)


(***************************************************************************)
(* Hook registries: insertion-ordered maps from a name to a function       *)
(***************************************************************************)
HasName(reg, name) == \E i \in 1..Len(reg) : reg[i].name = name

\* MapSet with a known name removed and entered again at the end
MapSetMovesToEnd(reg, name, fn) ==
    Append(SelectSeq(reg, LAMBDA e : e.name # name), HookEntry(name, fn))

\* Map.prototype.set: a known name keeps its position, a new one is appended
MapSet(reg, name, fn) ==
    IF HasName(reg, name)
    THEN [i \in 1..Len(reg) |-> IF reg[i].name = name THEN HookEntry(name, fn) ELSE reg[i]]
    ELSE Append(reg, HookEntry(name, fn))

\* Map.prototype.delete
RECURSIVE MapDelete(_, _)
MapDelete(reg, name) ==
    IF reg = <<>> THEN <<>>
    ELSE IF Head(reg).name = name THEN Tail(reg)
    ELSE <<Head(reg)>> \o MapDelete(Tail(reg), name)

DefaultPreHooks ==
    <<HookEntry("logHook", "logHook"),
      HookEntry("curateContextPreHook", "curateContextPreHook"),
      HookEntry("blockIfNoIntent", "blockIfNoIntent"),
      HookEntry("scopeAndLockPreHook", "scopeAndLockPreHook"),
      HookEntry("hitlPreHook", "hitlPreHook")>>

DefaultPostHooks ==
    <<HookEntry("traceAppender", "traceAppender"),
      HookEntry("postprocessPostHook", "postprocessPostHook")>>

CallIds == DOMAIN calls
NoCallInFlight == \A c \in CallIds : calls[c].pc = "idle"

hooksUnchanged ==
    UNCHANGED <<preHooks, postHooks, defaultHooksRegistered, lastRegistration>>
worldUnchanged ==
    UNCHANGED <<approvedScopeExpansions, intentScopeCache, files, disk, intentMapCache, loads, task, handshake, fnInput, fnOutput, ledger>>

\* lastRegistration is the latest call of registerPreHook or registerPostHook,
\* with the registry it found, as long as nothing else has written a registry
\* and no call of executeTool has started since
Registration(registry, name, fn, before) ==
    Some([registry |-> registry, name |-> name, fn |-> fn, before |-> before])

\* the place of name in a registry, 0 if it is not there
IndexOf(reg, name) ==
    IF HasName(reg, name) THEN CHOOSE i \in 1..Len(reg) : reg[i].name = name ELSE 0

\* The for loops of executeTool iterate the live Map: an entry deleted at or
\* before the place of the iterator moves that place one down, an entry added
\* is visited if the loop has not ended.  at is the place of the deleted entry.
PreIteratorAfterDelete(cr, at) ==
    IF cr.pc \in {"pre", "preErr"} /\ cr.preIdx >= at
    THEN [cr EXCEPT !.preIdx = @ - 1] ELSE cr

PostIteratorAfterDelete(cr, at) ==
    IF cr.pc \in {"post", "postErr"} /\ cr.postIdx >= at
    THEN [cr EXCEPT !.postIdx = @ - 1] ELSE cr

\* Map.prototype.clear: every entry is deleted, the iterators stay alive
IteratorsAfterClear(cr) ==
    IF cr.pc \in {"pre", "preErr"} THEN [cr EXCEPT !.preIdx = 0]
    ELSE IF cr.pc \in {"post", "postErr"} THEN [cr EXCEPT !.postIdx = 0]
    ELSE cr

registerPreHook(name, fn) ==
    /\ preHooks' = MapSet(preHooks, name, fn)
    /\ lastRegistration' = Registration("pre", name, fn, preHooks)
    /\ UNCHANGED <<postHooks, defaultHooksRegistered, calls>>
    /\ worldUnchanged

registerPostHook(name, fn) ==
    /\ postHooks' = MapSet(postHooks, name, fn)
    /\ lastRegistration' = Registration("post", name, fn, postHooks)
    /\ UNCHANGED <<preHooks, defaultHooksRegistered, calls>>
    /\ worldUnchanged

unregisterPreHook(name) ==
    /\ HasName(preHooks, name)
    /\ preHooks' = MapDelete(preHooks, name)
    /\ calls' = [c \in CallIds |->
                    PreIteratorAfterDelete(calls[c], IndexOf(preHooks, name))]
    /\ lastRegistration' = None
    /\ UNCHANGED <<postHooks, defaultHooksRegistered>>
    /\ worldUnchanged

unregisterPostHook(name) ==
    /\ HasName(postHooks, name)
    /\ postHooks' = MapDelete(postHooks, name)
    /\ calls' = [c \in CallIds |->
                    PostIteratorAfterDelete(calls[c], IndexOf(postHooks, name))]
    /\ lastRegistration' = None
    /\ UNCHANGED <<preHooks, defaultHooksRegistered>>
    /\ worldUnchanged

clearHooks ==
    /\ preHooks # <<>> \/ postHooks # <<>> \/ defaultHooksRegistered
    /\ preHooks' = <<>>
    /\ postHooks' = <<>>
    /\ defaultHooksRegistered' = FALSE
    /\ calls' = [c \in CallIds |-> IteratorsAfterClear(calls[c])]
    /\ lastRegistration' = None
    /\ worldUnchanged

RECURSIVE MapSetAll(_, _)
MapSetAll(reg, entries) ==
    IF entries = <<>> THEN reg
    ELSE MapSetAll(MapSet(reg, Head(entries).name, Head(entries).fn), Tail(entries))

registerDefaultHooks ==
    /\ ~defaultHooksRegistered
    /\ preHooks' = MapSetAll(preHooks, DefaultPreHooks)
    /\ postHooks' = MapSetAll(postHooks, DefaultPostHooks)
    /\ defaultHooksRegistered' = TRUE
    /\ lastRegistration' = None
    /\ UNCHANGED calls
    /\ worldUnchanged

(***************************************************************************)
(* executeTool                                                             *)
(***************************************************************************)
SetCall(c, cr) == calls' = [calls EXCEPT ![c] = cr]

\* executeTool, lines 93-121: the call starts and runs up to its first await
executeTool(c, toolName, payload, session) ==
    /\ calls[c].pc = "idle"
    /\ SetCall(c, NextPre([IdleCall EXCEPT !.pc = "pre", !.toolName = toolName,
                                           !.payload = payload, !.session = session,
                                           !.preSnap = preHooks, !.postSnap = postHooks,
                                           !.filesSnap = files, !.payloadSnap = payload]))
    /\ lastRegistration' = None
    /\ UNCHANGED <<preHooks, postHooks, defaultHooksRegistered>>
    /\ worldUnchanged

\* a hook of a test settles: it returns nothing, denies (with a reason, without
\* one, with the empty string, or as already reported), or throws
TestHookResume(c) ==
    LET cr == calls[c]
    IN  /\ cr.pc \in {"pre", "post"}
        /\ cr.hpc = "await"
        /\ SetCall(c, CASE cr.cur.fn = "throwFn" -> Raise(cr)
                        [] cr.cur.fn = "denyFn" ->
                             Settle(cr, Some(Decision(FALSE,
                                        Some(Msg("text", "blocked by test hook")), None)))
                        [] cr.cur.fn = "denyNoReasonFn" -> Settle(cr, Some(Decision(FALSE, None, None)))
                        [] cr.cur.fn = "denyEmptyReasonFn" ->
                             Settle(cr, Some(Decision(FALSE, Some(Msg("text", "")), None)))
                        [] cr.cur.fn = "denyReportedFn" ->
                             Settle(cr, Some(Decision(FALSE,
                                        Some(Msg("text", "blocked by test hook")), Some(TRUE))))
                        [] OTHER -> Settle(cr, None))
        /\ hooksUnchanged
        /\ worldUnchanged

\* PreHookReturn without the break: a denial is recorded and the loop goes on
PreHookReturnNoBreak(c) ==
    LET cr == calls[c]
        decision == cr.decision
    IN  /\ cr.pc = "pre"
        /\ cr.hpc = "ret"
        /\ SetCall(c,
             IF IsSome(decision) /\ Get(decision).allow = FALSE
             THEN NextPre([cr EXCEPT
                      !.allowed = FALSE,
                      !.blockedReason =
                          IF IsSome(Get(decision).reason) THEN Get(decision).reason
                          ELSE Some([Msg("text", "Blocked by pre-hook") EXCEPT
                                        !.hook_name = Some(cr.cur.name)]),
                      !.alreadyReported =
                          IF IsSome(Get(decision).alreadyReported)
                          THEN Get(Get(decision).alreadyReported) ELSE FALSE])
             ELSE NextPre(cr))
        /\ hooksUnchanged
        /\ worldUnchanged

\* executeTool, lines 155-161, after a pre-hook returned its decision
PreHookReturn(c) ==
    LET cr == calls[c]
        decision == cr.decision
    IN  /\ cr.pc = "pre"
        /\ cr.hpc = "ret"
        /\ SetCall(c,
             IF IsSome(decision) /\ Get(decision).allow = FALSE
             THEN AfterPre([cr EXCEPT
                      !.allowed = FALSE,
                      !.blockedReason =
                          IF IsSome(Get(decision).reason) THEN Get(decision).reason
                          ELSE Some([Msg("text", "Blocked by pre-hook") EXCEPT
                                        !.hook_name = Some(cr.cur.name)]),
                      !.alreadyReported =
                          IF IsSome(Get(decision).alreadyReported)
                          THEN Get(Get(decision).alreadyReported) ELSE FALSE])
             ELSE NextPre(cr))
        /\ hooksUnchanged
        /\ worldUnchanged

\* executeTool, lines 122-130: a pre-hook threw; handleError is awaited
PreHookThrown(c) ==
    LET cr == calls[c]
    IN  /\ cr.pc = "pre"
        /\ cr.hpc = "thrown"
        /\ SetCall(c, [cr EXCEPT !.pc = "preErr", !.hpc = "",
                                 !.handled = Append(@, <<"pre-hook", cr.cur.name>>)])
        /\ hooksUnchanged
        /\ worldUnchanged

\* PreErrorHandled going on with the next pre-hook whatever the name
PreErrorHandledContinues(c) ==
    /\ calls[c].pc = "preErr"
    /\ SetCall(c, NextPre([calls[c] EXCEPT !.pc = "pre"]))
    /\ hooksUnchanged
    /\ worldUnchanged

\* PreErrorHandled denying the call whatever the name of the hook that threw
PreErrorHandledDenies(c) ==
    LET cr == calls[c]
        hookName == cr.cur.name
    IN  /\ cr.pc = "preErr"
        /\ SetCall(c, AfterPre([Push(cr, [Msg("tool_error", "HOOK_INTERNAL_ERROR") EXCEPT
                                             !.hook_name = Some(hookName)])
                                EXCEPT !.decision = Denied,
                                       !.allowed = FALSE,
                                       !.blockedReason =
                                           Some([Msg("text", "Blocked by pre-hook") EXCEPT
                                                    !.hook_name = Some(hookName)]),
                                       !.alreadyReported = TRUE]))
        /\ hooksUnchanged
        /\ worldUnchanged

\* executeTool, lines 131-161, once handleError has returned
PreErrorHandled(c) ==
    LET cr == calls[c]
        hookName == cr.cur.name
    IN  /\ cr.pc = "preErr"
        /\ SetCall(c,
             IF hookName \in CRITICAL_PRE_HOOKS
             THEN AfterPre([Push(cr, [Msg("tool_error", "HOOK_INTERNAL_ERROR") EXCEPT
                                         !.hook_name = Some(hookName)])
                            EXCEPT !.decision = Denied,
                                   !.allowed = FALSE,
                                   !.blockedReason =
                                       Some([Msg("text", "Blocked by pre-hook") EXCEPT
                                                !.hook_name = Some(hookName)]),
                                   !.alreadyReported = TRUE])
             ELSE NextPre([cr EXCEPT !.pc = "pre"]))
        /\ hooksUnchanged
        /\ worldUnchanged

\* the paths of the workspace that a call's affected files name
AffectedKeys(cr) ==
    {ResolvedPath(Cwd, Classification(cr).affectedFiles[i]) :
        i \in 1..Len(Classification(cr).affectedFiles)} \cap DOMAIN files

\* the execute closure of a mutating tool writes payload.content
ClosureWrites(cr) ==
    IF isMutatingTool(normalizeToolName(cr.toolName)) /\ IsSome(cr.payload.content)
    THEN [f \in DOMAIN files |->
             IF f \in AffectedKeys(cr) THEN cr.payload.content ELSE files[f]]
    ELSE files

\* executeTool, lines 164-180: the execute closure returned
ExecuteReturn(c) ==
    LET cr == calls[c]
    IN  /\ cr.pc = "exec"
        /\ files' = ClosureWrites(cr)
        /\ SetCall(c, NextPost([cr EXCEPT !.result = Some("ok"), !.postIdx = 0,
                                          !.events = Append(@, <<"end", "execute">>)]))
        /\ hooksUnchanged
        /\ UNCHANGED <<approvedScopeExpansions, intentScopeCache, disk, intentMapCache, loads, task, handshake, fnInput, fnOutput, ledger>>

\* ExecuteThrow with the call ended at once, no post-hook run
ExecuteThrowSkipsPost(c) ==
    LET cr == calls[c]
    IN  /\ cr.pc = "exec"
        /\ SetCall(c, EndCall([cr EXCEPT !.error = Some("error"), !.postIdx = 0,
                                         !.events = Append(@, <<"throw", "execute">>)]))
        /\ hooksUnchanged
        /\ worldUnchanged

\* executeTool, lines 166-180: the execute closure threw
ExecuteThrow(c) ==
    LET cr == calls[c]
    IN  /\ cr.pc = "exec"
        /\ SetCall(c, NextPost([cr EXCEPT !.error = Some("error"), !.postIdx = 0,
                                          !.events = Append(@, <<"throw", "execute">>)]))
        /\ hooksUnchanged
        /\ worldUnchanged

\* executeTool, lines 180-183: a post-hook returned
PostHookReturn(c) ==
    LET cr == calls[c]
    IN  /\ cr.pc = "post"
        /\ cr.hpc = "ret"
        /\ SetCall(c, NextPost(cr))
        /\ hooksUnchanged
        /\ worldUnchanged

\* PostHookThrown without the catch: the hook's exception ends the call
PostHookThrownPropagates(c) ==
    LET cr == calls[c]
    IN  /\ cr.pc = "post"
        /\ cr.hpc = "thrown"
        /\ SetCall(c, [cr EXCEPT !.pc = "done", !.hpc = "", !.outcome = "throw",
                                 !.error = Some("hook error")])
        /\ hooksUnchanged
        /\ worldUnchanged

\* executeTool, lines 184-192: a post-hook threw; handleError is awaited
PostHookThrown(c) ==
    LET cr == calls[c]
    IN  /\ cr.pc = "post"
        /\ cr.hpc = "thrown"
        /\ SetCall(c, [cr EXCEPT !.pc = "postErr", !.hpc = "",
                                 !.handled = Append(@, <<"post-hook", cr.cur.name>>)])
        /\ hooksUnchanged
        /\ worldUnchanged

\* PostErrorHandled with the execute closure invoked again after the failure
PostErrorHandledRetry(c) ==
    LET cr == calls[c]
    IN  /\ cr.pc = "postErr"
        /\ SetCall(c, [Push(cr, [Msg("hook_warning", "HOOK_INTERNAL_ERROR") EXCEPT
                                    !.hook_name = Some(cr.cur.name)])
                       EXCEPT !.pc = IF cr.allowed THEN "exec" ELSE "post",
                              !.hpc = IF cr.allowed THEN "" ELSE "ret",
                              !.events = IF cr.allowed
                                         THEN Append(@, <<"start", "execute">>) ELSE @])
        /\ hooksUnchanged
        /\ worldUnchanged

\* PostErrorHandled ending the call: the post-hooks after the failure are skipped
PostErrorHandledStops(c) ==
    LET cr == calls[c]
    IN  /\ cr.pc = "postErr"
        /\ SetCall(c, EndCall(Push([cr EXCEPT !.pc = "post"],
                                   [Msg("hook_warning", "HOOK_INTERNAL_ERROR") EXCEPT
                                       !.hook_name = Some(cr.cur.name)])))
        /\ hooksUnchanged
        /\ worldUnchanged

\* executeTool, lines 193-208, once handleError has returned
PostErrorHandled(c) ==
    LET cr == calls[c]
    IN  /\ cr.pc = "postErr"
        /\ SetCall(c, NextPost(Push([cr EXCEPT !.pc = "post"],
                                    [Msg("hook_warning", "HOOK_INTERNAL_ERROR") EXCEPT
                                        !.hook_name = Some(cr.cur.name)])))
        /\ hooksUnchanged
        /\ worldUnchanged

\* executeTool rejects with the exception of a capability: nothing catches it
Reject(cr, capability) ==
    [cr EXCEPT !.pc = "done", !.hpc = "", !.outcome = "throw",
               !.error = Some("capability error"), !.capabilityThrew = Some(capability)]

\* executeTool, lines 130 and 192: the awaited handleError throws or rejects
\* inside the catch block
HandleErrorThrows(c) ==
    /\ calls[c].pc \in {"preErr", "postErr"}
    /\ SetCall(c, Reject(calls[c], "handleError"))
    /\ hooksUnchanged
    /\ worldUnchanged

\* executeTool, lines 136-150 and 193-206: handleError has returned and
\* pushToolResult throws on the HOOK_INTERNAL_ERROR object
PushToolResultThrows(c) ==
    /\ \/ calls[c].pc = "preErr" /\ calls[c].cur.name \in CRITICAL_PRE_HOOKS
       \/ calls[c].pc = "postErr"
    /\ SetCall(c, Reject(calls[c], "pushToolResult"))
    /\ hooksUnchanged
    /\ worldUnchanged

\* the caller has taken the outcome of the call
Finish(c) ==
    /\ calls[c].pc = "done"
    /\ SetCall(c, IdleCall)
    /\ hooksUnchanged
    /\ worldUnchanged


(***************************************************************************)
(* The awaits inside the default hooks                                     *)
(***************************************************************************)
\* the working directories of the sessions: Cwd, and that of another window
CwdB == <<"/", "v">>
Workspaces == {Cwd, CwdB}

\* path.resolve(cwd, ".orchestration", name)
IntentsPath(cwd) == <<cwd, ".orchestration/active_intents.yaml">>
MapPath(cwd) == <<cwd, ".orchestration/intent_map.md">>
IntentsFilePath == IntentsPath(Cwd)
FilePaths == {IntentsPath(w) : w \in Workspaces} \cup {MapPath(w) : w \in Workspaces}

\* a file of .orchestration: the time of its last modification and what its
\* text parses to.  active_intents.yaml declares owned_scope lists by intent
\* id, unless its text is not YAML (malformed); intent_map.md lists the
\* dependencies of the intents, unless it cannot be read (unreadable)
IntentsFile(mtimeMs, ownedScopeById) ==
    [mtimeMs |-> mtimeMs, malformed |-> FALSE, ownedScopeById |-> ownedScopeById]
MalformedIntentsFile(mtimeMs) ==
    [mtimeMs |-> mtimeMs, malformed |-> TRUE, ownedScopeById |-> <<>>]
MapFile(mtimeMs, intentDeps) ==
    [mtimeMs |-> mtimeMs, unreadable |-> FALSE, intentDeps |-> intentDeps]
UnreadableMapFile(mtimeMs) ==
    [mtimeMs |-> mtimeMs, unreadable |-> TRUE, intentDeps |-> <<>>]

\* the disk with active_intents.yaml of Cwd as given and nothing else
Disk(file) == [p \in FilePaths |-> IF p = IntentsFilePath THEN file ELSE None]

\* .orchestration/active_intents.yaml of Cwd, None if it does not exist
intentsFile == disk[IntentsFilePath]

\* the test of the three loaders on their one-entry cache, hitl.ts 164,
\* traceAppender.ts 191, SelectActiveIntentTool.ts 87: mtime alone
CacheHitAnyPath(cache, filePath, file) ==
    /\ IsSome(cache)
    /\ Get(cache).mtimeMs = file.mtimeMs

\* the test of the three loaders on their one-entry cache, hitl.ts 164,
\* traceAppender.ts 191, SelectActiveIntentTool.ts 87: the entry is of this
\* path and of the mtime fs.stat has just reported
CacheHit(cache, filePath, file) ==
    /\ IsSome(cache)
    /\ Get(cache).filePath = filePath
    /\ Get(cache).mtimeMs = file.mtimeMs

\* a step of call c inside its running hook, at the await named at
Resume(c, pc, at, cr) ==
    /\ calls[c].pc = pc
    /\ calls[c].hpc = at
    /\ SetCall(c, cr)
    /\ hooksUnchanged

\* curateContextPreHook, lines 126-177: the three files are read
CurateReadDone(c) ==
    LET cr == calls[c]
    IN  /\ Resume(c, "pre", "curate_read",
                  Settle([cr EXCEPT !.userMessages = @ + 1,
                                    !.payload._curated_context_key =
                                        Some(<<c, Classification(cr).normalizedToolName>>)],
                         Allow))
        /\ worldUnchanged

\* readIntentScopes, lines 149-168: fs.stat has answered
ScopeStatDone(c) ==
    LET cr == calls[c]
    IN  /\ Resume(c, "pre", "scope_stat",
                  IF ~IsSome(intentsFile) THEN ScopeCheck(cr, <<>>)
                  ELSE IF CacheHit(intentScopeCache, IntentsFilePath, Get(intentsFile))
                       THEN ScopeCheck(cr, Get(intentScopeCache).ownedScopeById)
                  ELSE [cr EXCEPT !.hpc = "scope_read",
                                  !.statMtime = Get(intentsFile).mtimeMs])
        /\ worldUnchanged

\* readIntentScopes, lines 168-183: fs.readFile has answered
ScopeReadDone(c) ==
    LET cr == calls[c]
    IN  /\ Resume(c, "pre", "scope_read",
                  IF ~IsSome(intentsFile) \/ Get(intentsFile).malformed THEN Raise(cr)
                  ELSE ScopeCheck(cr, Get(intentsFile).ownedScopeById))
        /\ intentScopeCache' =
              IF ~IsSome(intentsFile) \/ Get(intentsFile).malformed THEN intentScopeCache
              ELSE Some([filePath |-> IntentsFilePath, mtimeMs |-> cr.statMtime,
                         ownedScopeById |-> Get(intentsFile).ownedScopeById])
        /\ UNCHANGED <<approvedScopeExpansions, files, disk, intentMapCache, loads, task, handshake, fnInput, fnOutput, ledger>>

\* ExpansionApproved with one list of approved globs shared by all intents
ExpansionApprovedForAll(c) ==
    LET cr == calls[c]
        expansionRequest == Get(parseScopeExpansionRequest(cr.payload))
    IN  /\ Resume(c, "pre", "ask_expansion",
                  Settle([cr EXCEPT !.expansionApproved = TRUE], Allow))
        /\ approvedScopeExpansions' =
              [i \in DOMAIN approvedScopeExpansions |->
                  Dedupe(approvedScopeExpansions[i] \o expansionRequest.additional_globs)]
        /\ UNCHANGED <<intentScopeCache, files, disk, intentMapCache, loads, task, handshake, fnInput, fnOutput, ledger>>

\* scopeAndLockPreHook, lines 340-349: the human approves the expansion
ExpansionApproved(c) ==
    LET cr == calls[c]
        intentId == Get(cr.session.intent)
        expansionRequest == Get(parseScopeExpansionRequest(cr.payload))
    IN  /\ Resume(c, "pre", "ask_expansion",
                  Settle([cr EXCEPT !.expansionApproved = TRUE], Allow))
        /\ approvedScopeExpansions' =
              [approvedScopeExpansions EXCEPT
                  ![intentId] = Dedupe(@ \o expansionRequest.additional_globs)]
        /\ UNCHANGED <<intentScopeCache, files, disk, intentMapCache, loads, task, handshake, fnInput, fnOutput, ledger>>

\* scopeAndLockPreHook, lines 340-362: the human rejects or dismisses
ExpansionRejected(c) ==
    LET cr == calls[c]
        affectedFiles == Classification(cr).affectedFiles
    IN  /\ Resume(c, "pre", "ask_expansion",
                  Settle(Push(cr, buildScopeViolationError(
                                      RelativePath(Get(cr.session.cwd),
                                                   affectedFiles[cr.fileIdx]),
                                      cr.effectiveScope)),
                         Denied))
        /\ worldUnchanged

\* fs.readFile of a workspace file: its content, or None if it does not exist
ReadFile(cwd, affectedFile) ==
    IF ResolvedPath(cwd, affectedFile) \in DOMAIN files
    THEN files[ResolvedPath(cwd, affectedFile)] ELSE None

\* scopeAndLockPreHook, lines 374-406: fs.readFile of an affected file answered
LockReadDone(c) ==
    LET cr == calls[c]
        cwd == Get(cr.session.cwd)
        affectedFiles == Classification(cr).affectedFiles
        affectedFile == affectedFiles[cr.fileIdx]
        observedHash == Trim(Get(cr.payload.observed_content_hash))
        currentContent == ReadFile(cwd, affectedFile)
        currentHash == computeContentHash(Get(currentContent))
        next == IF cr.fileIdx < Len(affectedFiles)
                THEN [cr EXCEPT !.fileIdx = @ + 1]
                ELSE Settle(cr, Allow)
    IN  /\ Resume(c, "pre", "lock_read",
                  IF ~IsSome(currentContent) THEN next
                  ELSE IF currentHash # observedHash
                       THEN Settle(Push(cr, buildStaleFileError(
                                                RelativePath(cwd, affectedFile),
                                                observedHash, currentHash)),
                                   Denied)
                  ELSE next)
        /\ worldUnchanged

\* hitlPreHook, lines 66-75: the human answers Approve
HitlApproved(c) ==
    /\ Resume(c, "pre", "hitl_ask",
              Settle([calls[c] EXCEPT !.response = Some("Approve")], Allow))
    /\ worldUnchanged

\* what showWarningMessage resolves with when the human does not approve: the
\* button Reject, or undefined when the dialog is dismissed
Refusals == {"Reject", "undefined"}

\* HitlRejected with the refusal thrown as an exception
HitlRejectedThrows(c) ==
    \E response \in Refusals :
        /\ Resume(c, "pre", "hitl_ask",
                  Raise([calls[c] EXCEPT !.response = Some(response)]))
        /\ worldUnchanged

\* hitlPreHook, lines 66-89: the human answers Reject or dismisses the dialog
HitlRejected(c) ==
    \E response \in Refusals :
        /\ Resume(c, "pre", "hitl_ask",
                  Settle(Push([calls[c] EXCEPT !.response = Some(response)],
                              buildHitlRejectError(calls[c])),
                         Denied))
        /\ worldUnchanged

\* hitlPreHook, line 66: the promise of showWarningMessage rejects
HitlThrown(c) ==
    /\ Resume(c, "pre", "hitl_ask", Raise(calls[c]))
    /\ worldUnchanged

\* the dependencies of the call's intent in a loaded intent map
DepsOf(cr, intentDeps) ==
    IF IsSome(cr.session.intent) /\ Get(cr.session.intent) \in DOMAIN intentDeps
    THEN intentDeps[Get(cr.session.intent)] ELSE <<>>

\* readIntentDependencies, lines 183-195: fs.stat has answered; a map that is
\* absent or cached returns at once, to traceAppenderPostHook, lines 293-314
TraceDepsDone(c) ==
    LET cr == calls[c]
        filePath == MapPath(Get(cr.session.cwd))
        mapFile == disk[filePath]
    IN  /\ Resume(c, "post", "trace_deps",
                  IF ~IsSome(mapFile)
                  THEN [cr EXCEPT !.hpc = "trace_read", !.fileIdx = 1, !.deps = <<>>]
                  ELSE IF CacheHit(intentMapCache, filePath, Get(mapFile))
                       THEN [cr EXCEPT !.hpc = "trace_read", !.fileIdx = 1,
                                       !.deps = DepsOf(cr, Get(intentMapCache).intentDeps)]
                  ELSE [cr EXCEPT !.hpc = "trace_deps_read",
                                  !.statMtime = Get(mapFile).mtimeMs])
        /\ worldUnchanged

\* TraceDepsReadDone with a map that cannot be read taken as an empty map
TraceDepsReadDoneAbsorbs(c) ==
    LET cr == calls[c]
        filePath == MapPath(Get(cr.session.cwd))
        mapFile == disk[filePath]
        readable == IsSome(mapFile) /\ ~Get(mapFile).unreadable
    IN  /\ Resume(c, "post", "trace_deps_read",
                  [cr EXCEPT !.hpc = "trace_read", !.fileIdx = 1,
                             !.deps = IF readable THEN DepsOf(cr, Get(mapFile).intentDeps)
                                      ELSE <<>>])
        /\ intentMapCache' =
              IF ~readable THEN intentMapCache
              ELSE Some([filePath |-> filePath, mtimeMs |-> cr.statMtime,
                         intentDeps |-> Get(mapFile).intentDeps])
        /\ UNCHANGED <<approvedScopeExpansions, intentScopeCache, files, disk, loads,
                       task, handshake, fnInput, fnOutput, ledger>>

\* readIntentDependencies, lines 195-229: fs.readFile has answered, with the
\* text of the map or with an error, which leaves the hook
TraceDepsReadDone(c) ==
    LET cr == calls[c]
        filePath == MapPath(Get(cr.session.cwd))
        mapFile == disk[filePath]
        readable == IsSome(mapFile) /\ ~Get(mapFile).unreadable
    IN  /\ Resume(c, "post", "trace_deps_read",
                  IF ~readable THEN Raise(cr)
                  ELSE [cr EXCEPT !.hpc = "trace_read", !.fileIdx = 1,
                                  !.deps = DepsOf(cr, Get(mapFile).intentDeps)])
        /\ intentMapCache' =
              IF ~readable THEN intentMapCache
              ELSE Some([filePath |-> filePath, mtimeMs |-> cr.statMtime,
                         intentDeps |-> Get(mapFile).intentDeps])
        /\ UNCHANGED <<approvedScopeExpansions, intentScopeCache, files, disk, loads,
                       task, handshake, fnInput, fnOutput, ledger>>

\* traceAppenderPostHook, lines 310-370: fs.readFile of an affected file answered
TraceReadDone(c) ==
    LET cr == calls[c]
        cwd == Get(cr.session.cwd)
        affectedFiles == Classification(cr).affectedFiles
        relativePath == affectedFiles[cr.fileIdx]
        cr1 == IF IsSome(ReadFile(cwd, relativePath))
               THEN [cr EXCEPT !.fileRecords = Append(@, RelativePath(cwd, relativePath))]
               ELSE cr
    IN  /\ Resume(c, "post", "trace_read",
                  IF cr.fileIdx < Len(affectedFiles) THEN [cr1 EXCEPT !.fileIdx = @ + 1]
                  ELSE IF Len(cr1.fileRecords) = 0 THEN Settle(cr1, None)
                  ELSE [cr1 EXCEPT !.hpc = "trace_append"])
        /\ worldUnchanged

\* traceAppenderPostHook, lines 290-300 and 334-353: the entry of one file in
\* a record; the payloads of the model carry no related references, so related
\* is the specification of the intent followed by those it depends on
FileRecord(cr, invocationId, relativePath) ==
    [relative_path |-> relativePath,
     related |-> Dedupe(<<[type |-> "specification",
                           value |-> IF IsSome(cr.session.intent)
                                     THEN Get(cr.session.intent) ELSE "UNKNOWN"]>>
                        \o [k \in 1..Len(cr.deps) |->
                               [type |-> "specification", value |-> cr.deps[k]]]),
     hook_invocation_id |-> invocationId]

\* traceAppenderPostHook, lines 361-366: the record of a call
TraceRecord(cr, id, invocationId) ==
    [id |-> id,
     files |-> [k \in 1..Len(cr.fileRecords) |->
                   FileRecord(cr, invocationId, cr.fileRecords[k])]]

\* TraceAppendDone with a record that is given an identifier of its own
TraceAppendDoneOwnId(c) ==
    LET cr == calls[c]
    IN  /\ Resume(c, "post", "trace_append", Settle(cr, None))
        /\ ledger' = Append(ledger, TraceRecord(cr, c + MaxRaceCalls, c))
        /\ UNCHANGED <<approvedScopeExpansions, intentScopeCache, files, disk, intentMapCache, loads, task, handshake, fnInput, fnOutput>>

\* TraceAppendDone with the ledger file written anew instead of appended to
TraceAppendDoneOverwrites(c) ==
    LET cr == calls[c]
    IN  /\ Resume(c, "post", "trace_append", Settle(cr, None))
        /\ ledger' = <<TraceRecord(cr, c, c)>>
        /\ UNCHANGED <<approvedScopeExpansions, intentScopeCache, files, disk, intentMapCache, loads, task, handshake, fnInput, fnOutput>>

\* traceAppenderPostHook, lines 361-373: the record is appended to the ledger;
\* the invocation id of a call is the number of its slot
TraceAppendDone(c) ==
    LET cr == calls[c]
    IN  /\ Resume(c, "post", "trace_append", Settle(cr, None))
        /\ ledger' = Append(ledger, TraceRecord(cr, c, c))
        /\ UNCHANGED <<approvedScopeExpansions, intentScopeCache, files, disk, intentMapCache, loads, task, handshake, fnInput, fnOutput>>

\* postprocessPostHook, lines 189-218: prettier has rewritten the existing
\* affected files and the checks have run
PostprocessDone(c) ==
    LET cr == calls[c]
    IN  /\ Resume(c, "post", "pp_run", Settle(cr, None))
        /\ files' = [f \in DOMAIN files |->
                        IF f \in AffectedKeys(cr) /\ IsSome(files[f])
                        THEN Some(Format(Get(files[f]))) ELSE files[f]]
        /\ UNCHANGED <<approvedScopeExpansions, intentScopeCache, disk, intentMapCache, loads, task, handshake, fnInput, fnOutput, ledger>>


(***************************************************************************)
(* The workspace and the inputs                                            *)
(***************************************************************************)
IntentIds == {"INT-001", "INT-002"}
Paths == {PathA, PathB}
AbsPathA == Cwd \o <<"/">> \o PathA

\* .orchestration/active_intents.yaml: absent, or its time of modification and
\* the owned_scope lists it declares
IntentsFiles ==
    {None,
     Some(IntentsFile(1, "INT-001" :> <<GlobA>>)),
     Some(IntentsFile(1, "INT-001" :> <<>>)),
     Some(IntentsFile(1, "INT-002" :> <<GlobB>>))}

NoExpansions == [i \in IntentIds |-> <<>>]

\* a fresh Task: no active intent selected, no mistake counted
FreshTask == [activeIntentId |-> None, consecutiveMistakeCount |-> 0]

\* SelectActiveIntentTool before its first call: the static cache is unset
IdleHandshake ==
    [cache |-> None, pc |-> "idle", intent_id |-> "", pushes |-> <<>>,
     before |-> None, succeeded |-> FALSE]

InitWorld ==
    /\ ledger = <<>>
    /\ intentScopeCache = None
    /\ intentMapCache = None
    /\ loads = <<>>
    /\ task = FreshTask
    /\ handshake = IdleHandshake
    /\ fnInput = None
    /\ fnOutput = None

\* the hashes an agent may have observed
ObservedHashes == {None, Some(" ")} \cup {Some(computeContentHash(n)) : n \in Contents}

ExpansionRequests ==
    {None, Some([additional_globs |-> <<>>]), Some([additional_globs |-> <<GlobB>>])}

PathChoices ==
    {<<Some(PathA), None, <<>>>>,
     <<Some(PathB), None, <<>>>>,
     <<None, None, <<>>>>,
     <<Some(PathA), Some(PathB), <<>>>>,
     <<None, None, <<PathB, PathA>>>>,
     <<Some(AbsPathA), None, <<>>>>}

Sessions ==
    {Session(None, None, FALSE), Session(None, Some(Cwd), TRUE),
     Session(Some("INT-001"), None, FALSE), Session(Some("INT-001"), Some(Cwd), TRUE)}

\* the calls submitted under the default chain: every tool name on a simple
\* payload in every session, and the payload shapes on two mutating tools
DefaultInputs ==
    {<<t, Payload(Some(PathA), None, <<>>, Some(MaxContent), o, None), s>> :
        t \in ToolNames, o \in {None}, s \in Sessions}
    \cup
    {<<t, Payload(pc[1], pc[2], pc[3], Some(MaxContent), o, e),
       Session(Some("INT-001"), Some(Cwd), TRUE)>> :
        t \in {"write_to_file", "apply_patch"}, pc \in PathChoices,
        o \in ObservedHashes, e \in ExpansionRequests}

(***************************************************************************)
(* Spec: the hook engine with the hooks of its tests, one call at a time   *)
(***************************************************************************)
PreNames == {"preA", "preB", "hitlPreHook"}
PostNames == {"postA", "postB"}
EngineInputs ==
    {<<"read_file", Payload(Some(PathA), None, <<>>, None, None, None),
       Session(None, None, FALSE)>>,
     <<"write_to_file", Payload(Some(PathA), None, <<>>, Some(1), None, None),
       Session(None, None, FALSE)>>}

Init ==
    /\ preHooks = <<>>
    /\ postHooks = <<>>
    /\ defaultHooksRegistered = FALSE
    /\ lastRegistration = None
    /\ approvedScopeExpansions = NoExpansions
    /\ InitWorld
    /\ files = [f \in Paths |-> Some(1)]
    /\ disk = Disk(None)
    /\ calls = [c \in {1} |-> IdleCall]

Next ==
    \/ \E name \in PreNames, fn \in PreTestFns : NoCallInFlight /\ registerPreHook(name, fn)
    \/ \E name \in PostNames, fn \in PostTestFns : NoCallInFlight /\ registerPostHook(name, fn)
    \/ \E name \in PreNames : NoCallInFlight /\ unregisterPreHook(name)
    \/ \E name \in PostNames : NoCallInFlight /\ unregisterPostHook(name)
    \/ NoCallInFlight /\ clearHooks
    \/ \E c \in CallIds, in \in EngineInputs : executeTool(c, in[1], in[2], in[3])
    \/ \E c \in CallIds : TestHookResume(c)
    \/ \E c \in CallIds : PreHookReturn(c)
    \/ \E c \in CallIds : PreHookThrown(c)
    \/ \E c \in CallIds : PreErrorHandled(c)
    \/ \E c \in CallIds : ExecuteReturn(c)
    \/ \E c \in CallIds : ExecuteThrow(c)
    \/ \E c \in CallIds : PostHookReturn(c)
    \/ \E c \in CallIds : PostHookThrown(c)
    \/ \E c \in CallIds : PostErrorHandled(c)
    \/ \E c \in CallIds : Finish(c)

Spec == Init /\ [][Next]_vars

(***************************************************************************)
(* SpecDefault: one call once registerDefaultHooks has run                 *)
(***************************************************************************)
InitDefault ==
    /\ preHooks = DefaultPreHooks
    /\ postHooks = DefaultPostHooks
    /\ defaultHooksRegistered = TRUE
    /\ lastRegistration = None
    /\ approvedScopeExpansions \in {NoExpansions, [NoExpansions EXCEPT !["INT-001"] = <<GlobB>>]}
    /\ InitWorld
    /\ files \in {[f \in Paths |-> IF f = PathA THEN a ELSE Some(0)] :
                     a \in {None, Some(0), Some(MaxContent)}}
    /\ disk \in {Disk(f) : f \in IntentsFiles}
    /\ calls = [c \in {1} |-> IdleCall]

NextDefault ==
    \/ \E c \in CallIds, in \in DefaultInputs : executeTool(c, in[1], in[2], in[3])
    \/ \E c \in CallIds : CurateReadDone(c)
    \/ \E c \in CallIds : ScopeStatDone(c)
    \/ \E c \in CallIds : ScopeReadDone(c)
    \/ \E c \in CallIds : ExpansionApproved(c)
    \/ \E c \in CallIds : ExpansionRejected(c)
    \/ \E c \in CallIds : LockReadDone(c)
    \/ \E c \in CallIds : HitlApproved(c)
    \/ \E c \in CallIds : HitlRejected(c)
    \/ \E c \in CallIds : PreHookReturn(c)
    \/ \E c \in CallIds : ExecuteReturn(c)
    \/ \E c \in CallIds : ExecuteThrow(c)
    \/ \E c \in CallIds : TraceDepsDone(c)
    \/ \E c \in CallIds : TraceReadDone(c)
    \/ \E c \in CallIds : TraceAppendDone(c)
    \/ \E c \in CallIds : PostprocessDone(c)
    \/ \E c \in CallIds : PostHookReturn(c)

SpecDefault == InitDefault /\ [][NextDefault]_vars

(***************************************************************************)
(* SpecRace: overlapping calls of one agent on the same file               *)
(***************************************************************************)
RaceInput ==
    <<"write_to_file",
      Payload(Some(PathA), None, <<>>, Some(MaxContent), Some(computeContentHash(0)), None),
      Session(Some("INT-001"), Some(Cwd), TRUE)>>

InitRace ==
    /\ preHooks = <<>>
    /\ postHooks = <<>>
    /\ defaultHooksRegistered = FALSE
    /\ lastRegistration = None
    /\ approvedScopeExpansions = NoExpansions
    /\ InitWorld
    /\ files = [f \in Paths |-> Some(0)]
    /\ disk = Disk(Some(IntentsFile(1, "INT-001" :> <<GlobA>>)))
    /\ calls = [c \in 1..MaxRaceCalls |-> IdleCall]

NextRace ==
    \/ registerDefaultHooks
    \/ \E c \in CallIds : executeTool(c, RaceInput[1], RaceInput[2], RaceInput[3])
    \/ \E c \in CallIds : CurateReadDone(c)
    \/ \E c \in CallIds : ScopeStatDone(c)
    \/ \E c \in CallIds : ScopeReadDone(c)
    \/ \E c \in CallIds : LockReadDone(c)
    \/ \E c \in CallIds : HitlApproved(c)
    \/ \E c \in CallIds : HitlRejected(c)
    \/ \E c \in CallIds : PreHookReturn(c)
    \/ \E c \in CallIds : ExecuteReturn(c)
    \/ \E c \in CallIds : ExecuteThrow(c)
    \/ \E c \in CallIds : TraceDepsDone(c)
    \/ \E c \in CallIds : TraceReadDone(c)
    \/ \E c \in CallIds : TraceAppendDone(c)
    \/ \E c \in CallIds : PostprocessDone(c)
    \/ \E c \in CallIds : PostHookReturn(c)

SpecRace == InitRace /\ [][NextRace]_vars


(***************************************************************************)
(* SpecLive: the registries are written while a call is suspended          *)
(***************************************************************************)
LivePreNames == {"preA", "preB"}
LivePostNames == {"postA"}

\* write_to_file from a session without intent, as in the tests of the engine
LiveInput ==
    <<"write_to_file", Payload(Some(PathA), None, <<>>, Some(1), None, None),
      Session(None, None, FALSE)>>

\* the registries are written as long as no call has made MaxLiveEvents steps
LiveWrites == \A c \in CallIds : Len(calls[c].events) < MaxLiveEvents

NextLive ==
    \/ \E name \in LivePreNames : LiveWrites /\ registerPreHook(name, "allowFn")
    \/ \E name \in LivePostNames : LiveWrites /\ registerPostHook(name, "okFn")
    \/ \E name \in LivePreNames : LiveWrites /\ unregisterPreHook(name)
    \/ \E name \in LivePostNames : LiveWrites /\ unregisterPostHook(name)
    \/ LiveWrites /\ clearHooks
    \/ \E c \in CallIds : executeTool(c, LiveInput[1], LiveInput[2], LiveInput[3])
    \/ \E c \in CallIds : TestHookResume(c)
    \/ \E c \in CallIds : PreHookReturn(c)
    \/ \E c \in CallIds : ExecuteReturn(c)
    \/ \E c \in CallIds : PostHookReturn(c)

SpecLive == Init /\ [][NextLive]_vars

(***************************************************************************)
(* SpecHandshake: select_active_intent and one call of the session         *)
(***************************************************************************)
\* the intent_id parameters an agent submits
HandshakeIds == {"", " ", "INT-001", "INT-002", "INT-003"}

handshakeUnchanged ==
    /\ hooksUnchanged
    /\ UNCHANGED <<approvedScopeExpansions, intentScopeCache, files, disk, intentMapCache, loads,
                   ledger, calls, fnInput, fnOutput>>

\* SelectLookup binding the session to whatever id is requested
SelectLookupAnyId(hs, intentsById) ==
    /\ task' = [activeIntentId |-> Some(hs.intent_id), consecutiveMistakeCount |-> 0]
    /\ handshake' = [hs EXCEPT !.pc = "done", !.succeeded = TRUE,
                               !.pushes = Append(@, Msg("text", "intent_context"))]

\* execute, lines 164-179: the intent is looked up in the loaded map
SelectLookup(hs, intentsById) ==
    IF hs.intent_id \notin DOMAIN intentsById
    THEN /\ task' = [task EXCEPT !.consecutiveMistakeCount = @ + 1]
         /\ handshake' = [hs EXCEPT !.pc = "done",
                                    !.pushes = Append(@, Msg("text", "Handshake failed: unknown intent_id"))]
    ELSE /\ task' = [activeIntentId |-> Some(hs.intent_id), consecutiveMistakeCount |-> 0]
         /\ handshake' = [hs EXCEPT !.pc = "done", !.succeeded = TRUE,
                                    !.pushes = Append(@, Msg("text", "intent_context"))]

\* execute, lines 124-150: the tool is called; it runs up to its first await
selectActiveIntent(intent_id) ==
    /\ handshake.pc \in {"idle", "done"}
    /\ NoCallInFlight
    /\ task.consecutiveMistakeCount < MaxMistakes
    /\ IF Trim(intent_id) = ""
       THEN /\ task' = [task EXCEPT !.consecutiveMistakeCount = @ + 1]
            /\ handshake' = [handshake EXCEPT !.pc = "say", !.intent_id = intent_id,
                                              !.pushes = <<>>, !.before = task.activeIntentId]
       ELSE /\ handshake' = [handshake EXCEPT !.pc = "access", !.intent_id = intent_id,
                                              !.pushes = <<>>, !.before = task.activeIntentId]
            /\ UNCHANGED task
    /\ handshakeUnchanged

\* execute, lines 131-132: sayAndCreateMissingParamError has answered
SelectSayDone ==
    /\ handshake.pc = "say"
    /\ handshake' = [handshake EXCEPT !.pc = "done",
                                      !.pushes = Append(@, Msg("text", "Missing value for required parameter 'intent_id'"))]
    /\ UNCHANGED task
    /\ handshakeUnchanged

\* execute, lines 141-162: fs.access has answered for the candidates
SelectAccessDone ==
    /\ handshake.pc = "access"
    /\ IF ~IsSome(intentsFile)
       THEN /\ task' = [task EXCEPT !.consecutiveMistakeCount = @ + 1]
            /\ handshake' = [handshake EXCEPT !.pc = "done",
                                              !.pushes = Append(@, Msg("text", "Handshake failed: active_intents.yaml was not found"))]
       ELSE /\ handshake' = [handshake EXCEPT !.pc = "stat"]
            /\ UNCHANGED task
    /\ handshakeUnchanged

\* loadActiveIntents, lines 85-92: fs.stat has answered
SelectStatDone ==
    /\ handshake.pc = "stat"
    /\ IF CacheHit(handshake.cache, IntentsFilePath, Get(intentsFile))
       THEN SelectLookup(handshake, Get(handshake.cache).intentsById)
       ELSE /\ handshake' = [handshake EXCEPT !.pc = "read"]
            /\ UNCHANGED task
    /\ handshakeUnchanged

\* loadActiveIntents, lines 94-121: fs.readFile has answered
SelectReadDone ==
    /\ handshake.pc = "read"
    /\ LET intentsById == Get(intentsFile).ownedScopeById
       IN  SelectLookup([handshake EXCEPT !.cache =
                            Some([filePath |-> IntentsFilePath,
                                  mtimeMs |-> Get(intentsFile).mtimeMs,
                                  intentsById |-> intentsById])],
                        intentsById)
    /\ handshakeUnchanged

\* the session a hook sees: the Task, its working directory and its intent
TaskSession == Session(task.activeIntentId, Some(Cwd), TRUE)

\* the tools the agent calls between handshakes
HandshakeCalls ==
    {<<t, Payload(Some(p), None, <<>>, Some(MaxContent), None, None)>> :
        t \in {"write_to_file", "apply_diff", "write_file", "read_file"}, p \in Paths}

InitHandshake ==
    /\ preHooks = DefaultPreHooks
    /\ postHooks = DefaultPostHooks
    /\ defaultHooksRegistered = TRUE
    /\ lastRegistration = None
    /\ approvedScopeExpansions = NoExpansions
    /\ InitWorld
    /\ files = [f \in Paths |-> Some(0)]
    /\ disk \in {Disk(f) : f \in IntentsFiles}
    /\ calls = [c \in {1} |-> IdleCall]

NextHandshake ==
    \/ \E intent_id \in HandshakeIds : selectActiveIntent(intent_id)
    \/ SelectSayDone
    \/ SelectAccessDone
    \/ SelectStatDone
    \/ SelectReadDone
    \/ \E c \in CallIds, in \in HandshakeCalls :
          handshake.pc \in {"idle", "done"} /\ executeTool(c, in[1], in[2], TaskSession)
    \/ \E c \in CallIds : CurateReadDone(c)
    \/ \E c \in CallIds : ScopeStatDone(c)
    \/ \E c \in CallIds : ScopeReadDone(c)
    \/ \E c \in CallIds : HitlApproved(c)
    \/ \E c \in CallIds : HitlRejected(c)
    \/ \E c \in CallIds : PreHookReturn(c)
    \/ \E c \in CallIds : ExecuteReturn(c)
    \/ \E c \in CallIds : ExecuteThrow(c)
    \/ \E c \in CallIds : TraceDepsDone(c)
    \/ \E c \in CallIds : TraceReadDone(c)
    \/ \E c \in CallIds : TraceAppendDone(c)
    \/ \E c \in CallIds : PostprocessDone(c)
    \/ \E c \in CallIds : PostHookReturn(c)

SpecHandshake == InitHandshake /\ [][NextHandshake]_vars

(***************************************************************************)
(* SpecHash: computeContentHash on texts.  A text is a sequence of         *)
(* characters: "a" is a statement, "#" a comment, "(" a token that cannot  *)
(* be parsed, and the rest is whitespace.                                  *)
(***************************************************************************)
NL == "\n"
CR == "\r"
WhiteSpace == {" ", NL, CR}
TextChars == {"a", "#", "(", " ", NL}

RECURSIVE TextsOf(_)
TextsOf(n) ==
    IF n = 0 THEN {<<>>}
    ELSE LET shorter == TextsOf(n - 1)
         IN  shorter \cup {Append(t, ch) : t \in {u \in shorter : Len(u) = n - 1}, ch \in TextChars}

Texts == TextsOf(MaxTextLen)

\* String.prototype.trimEnd and String.prototype.trim
RECURSIVE trimEnd(_)
trimEnd(text) ==
    IF text # <<>> /\ text[Len(text)] \in WhiteSpace
    THEN trimEnd(SubSeq(text, 1, Len(text) - 1)) ELSE text

RECURSIVE trimStart(_)
trimStart(text) ==
    IF text # <<>> /\ Head(text) \in WhiteSpace THEN trimStart(Tail(text)) ELSE text

trim(text) == trimStart(trimEnd(text))

\* text.replace(/\r\n/g, "\n")
RECURSIVE ReplaceCrLf(_)
ReplaceCrLf(text) ==
    IF Len(text) < 2 THEN text
    ELSE IF text[1] = CR /\ text[2] = NL THEN <<NL>> \o ReplaceCrLf(SubSeq(text, 3, Len(text)))
    ELSE <<Head(text)>> \o ReplaceCrLf(Tail(text))

\* text.split("\n")
RECURSIVE Split(_)
Split(text) ==
    IF \A i \in 1..Len(text) : text[i] # NL THEN <<text>>
    ELSE LET i == CHOOSE j \in 1..Len(text) :
                      text[j] = NL /\ \A k \in 1..(j - 1) : text[k] # NL
         IN  <<SubSeq(text, 1, i - 1)>> \o Split(SubSeq(text, i + 1, Len(text)))

\* lines.join("\n")
RECURSIVE Join(_)
Join(lines) ==
    IF Len(lines) = 1 THEN lines[1]
    ELSE lines[1] \o <<NL>> \o Join(Tail(lines))

normalizeStringForHash(text) ==
    LET lines == Split(ReplaceCrLf(text))
    IN  trim(Join([i \in 1..Len(lines) |-> trimEnd(lines[i])]))

\* the digest of a string, taken free of collisions: the string itself
sha256Hex(value) == value

\* the 0-based offset at which line lineNumber starts, from index i on line currentLine
RECURSIVE LineScan(_, _, _, _)
LineScan(content, lineNumber, i, currentLine) ==
    IF i >= Len(content) THEN Len(content)
    ELSE IF currentLine = lineNumber THEN i
    ELSE LineScan(content, lineNumber, i + 1,
                  IF content[i + 1] = NL THEN currentLine + 1 ELSE currentLine)

lineToOffset(content, lineNumber) ==
    IF lineNumber <= 1 THEN 0 ELSE LineScan(content, lineNumber, 0, 1)

\* the 0-based offsets of the tokens of a text that are not trivia
TokenOffsets(text) == {i \in 0..(Len(text) - 1) : text[i + 1] \in {"a", "("}}

\* the k-th smallest element of a set of numbers
RECURSIVE Nth(_, _)
Nth(S, k) ==
    LET least == CHOOSE x \in S : \A y \in S : x <= y
    IN  IF k = 1 THEN least ELSE Nth(S \ {least}, k - 1)

\* ts.createSourceFile: the statements in order, each from the end of the token
\* before it (its leading trivia included) to its own end, and the end-of-file
\* token that holds the trailing trivia
createSourceFile(text) ==
    LET offsets == TokenOffsets(text)
        n == Cardinality(offsets)
        statements == [k \in 1..n |->
                          [kind |-> text[Nth(offsets, k) + 1],
                           pos |-> IF k = 1 THEN 0 ELSE Nth(offsets, k - 1) + 1,
                           end |-> Nth(offsets, k) + 1]]
    IN  [kind |-> "SourceFile", pos |-> 0, end |-> Len(text), statements |-> statements,
         endOfFileToken |-> [kind |-> "EndOfFileToken",
                             pos |-> IF n = 0 THEN 0 ELSE statements[n].end,
                             end |-> Len(text)]]

HasSyntaxError(text) == \E i \in 1..Len(text) : text[i] = "("

\* what parsing and printing a text can do: a text without syntax error gives
\* its tree; on a syntax error the parser recovers a tree, or the try block throws
Thrown == [kind |-> "Thrown"]
ParseOutcomes(text) ==
    IF HasSyntaxError(text) THEN {createSourceFile(text), Thrown} ELSE {createSourceFile(text)}

\* visit, lines 116-126, over the children of the source file from the k-th on
RECURSIVE VisitChildren(_, _, _, _)
VisitChildren(children, startOffset, endOffset, best) ==
    IF children = <<>> THEN best
    ELSE LET node == Head(children)
             contains == node.pos <= startOffset /\ node.end >= endOffset
             better == contains /\ node.end - node.pos < best.end - best.pos
         IN  VisitChildren(Tail(children), startOffset, endOffset,
                           IF better THEN node ELSE best)

findSmallestContainingNode(sourceFile, startOffset, endOffset) ==
    IF sourceFile.pos <= startOffset /\ sourceFile.end >= endOffset
    THEN Some(VisitChildren(Append(sourceFile.statements, sourceFile.endOfFileToken),
                            startOffset, endOffset, sourceFile))
    ELSE None

\* printer.printFile: every statement on a line of its own, comments removed
RECURSIVE printFile(_)
printFile(statements) ==
    IF statements = <<>> THEN <<>>
    ELSE <<Head(statements).kind, NL>> \o printFile(Tail(statements))

canonicalizeAstNode(node) ==
    IF node.kind = "SourceFile" THEN printFile(node.statements)
    ELSE IF node.kind = "EndOfFileToken" THEN <<>>
    ELSE <<node.kind>>

\* haystack.includes(needle)
Includes(haystack, needle) ==
    \E i \in 0..(Len(haystack) - Len(needle)) :
        SubSeq(haystack, i + 1, i + Len(needle)) = needle

ComputeContentHashInput(fileContent, modifiedRange, insertedContent) ==
    [fileContent |-> fileContent, modifiedRange |-> modifiedRange,
     insertedContent |-> insertedContent]

ComputeContentHashResult(canonicalContent, strategy) ==
    [contentHash |-> <<"sha256:", sha256Hex(canonicalContent)>>,
     strategy |-> strategy, canonicalContent |-> canonicalContent]

\* computeContentHash, lines 147-194, when parsing and printing gave parsed
computeContentHashOf(input, parsed) ==
    LET fileContent == input.fileContent
        insertedContent == input.insertedContent
        hasInserted == IsSome(insertedContent) /\ Get(insertedContent) # <<>>
        targetNode ==
            IF IsSome(input.modifiedRange)
            THEN findSmallestContainingNode(
                     parsed,
                     lineToOffset(fileContent, Get(input.modifiedRange).startLine),
                     lineToOffset(fileContent, Get(input.modifiedRange).endLine + 1))
            ELSE None
        fallback ==
            normalizeStringForHash(
                IF hasInserted /\ Len(trim(Get(insertedContent))) > 0
                THEN Get(insertedContent) ELSE fileContent)
    IN  IF parsed = Thrown THEN ComputeContentHashResult(fallback, "normalized_string")
        ELSE IF /\ ~IsSome(targetNode)
                /\ hasInserted
                /\ Len(normalizeStringForHash(Get(insertedContent))) > 0
                /\ Includes(normalizeStringForHash(fileContent),
                            normalizeStringForHash(Get(insertedContent)))
        THEN ComputeContentHashResult(normalizeStringForHash(Get(insertedContent)),
                                      "normalized_string")
        ELSE ComputeContentHashResult(
                 normalizeStringForHash(
                     canonicalizeAstNode(IF IsSome(targetNode) THEN Get(targetNode) ELSE parsed)),
                 "ast_canonical")

\* the line ranges and the inserted contents a caller passes
ModifiedRanges ==
    {None} \cup {Some([startLine |-> s, endLine |-> e]) : s \in 1..3, e \in 1..3}
InsertedContents ==
    {None} \cup {Some(t) : t \in {u \in Texts : Len(u) <= 1}}
HashInputs ==
    {ComputeContentHashInput(c, r, ins) :
        c \in Texts, r \in ModifiedRanges, ins \in InsertedContents}

InitHash ==
    /\ preHooks = <<>>
    /\ postHooks = <<>>
    /\ defaultHooksRegistered = FALSE
    /\ lastRegistration = None
    /\ approvedScopeExpansions = NoExpansions
    /\ intentScopeCache = None
    /\ intentMapCache = None
    /\ loads = <<>>
    /\ files = [f \in Paths |-> None]
    /\ disk = Disk(None)
    /\ ledger = <<>>
    /\ calls = [c \in {1} |-> IdleCall]
    /\ task = FreshTask
    /\ handshake = IdleHandshake
    /\ fnInput \in {Some(in) : in \in HashInputs}
    /\ fnOutput = None

\* computeContentHash is applied to the input
ComputeContentHash ==
    /\ fnOutput = None
    /\ \E parsed \in ParseOutcomes(Get(fnInput).fileContent) :
          fnOutput' = Some(computeContentHashOf(Get(fnInput), parsed))
    /\ UNCHANGED <<fnInput, calls, task, handshake, approvedScopeExpansions,
                   intentScopeCache, files, disk, intentMapCache, loads, ledger>>
    /\ hooksUnchanged

NextHash == ComputeContentHash

SpecHash == InitHash /\ [][NextHash]_vars

(***************************************************************************)
(* SpecClassify: classifyCommand on tool names and payloads                *)
(***************************************************************************)
\* the names of the policy, and names that only a prefix or nothing classifies
ClassifiedNames ==
    ToolNames \cup SAFE_TOOLS \cup DESTRUCTIVE_TOOLS
    \cup {"read_resource", "readme", "listing", "lis", "write", "writer_notes",
          "delete_file", "deleted", "del", "execute", "exec_bash_list", ""}

ClassifiedPayloads ==
    {Payload(pc[1], pc[2], pc[3], c, None, None) :
        pc \in PathChoices, c \in {None, Some(MaxContent)}}

InitClassify ==
    /\ preHooks = <<>>
    /\ postHooks = <<>>
    /\ defaultHooksRegistered = FALSE
    /\ lastRegistration = None
    /\ approvedScopeExpansions = NoExpansions
    /\ intentScopeCache = None
    /\ intentMapCache = None
    /\ loads = <<>>
    /\ files = [f \in Paths |-> None]
    /\ disk = Disk(None)
    /\ ledger = <<>>
    /\ calls = [c \in {1} |-> IdleCall]
    /\ task = FreshTask
    /\ handshake = IdleHandshake
    /\ fnInput \in {Some([toolName |-> t, payload |-> p]) :
                       t \in ClassifiedNames, p \in ClassifiedPayloads}
    /\ fnOutput = None

\* classifyCommand is applied to the input
ClassifyCommand ==
    /\ fnOutput = None
    /\ fnOutput' = Some(classifyCommand(Get(fnInput).toolName, Get(fnInput).payload))
    /\ UNCHANGED <<fnInput, calls, task, handshake, approvedScopeExpansions,
                   intentScopeCache, files, disk, intentMapCache, loads, ledger>>
    /\ hooksUnchanged

NextClassify == ClassifyCommand

SpecClassify == InitClassify /\ [][NextClassify]_vars

(***************************************************************************)
(* SpecGlob: matchesAnyGlob on one glob and one relative path              *)
(***************************************************************************)
GlobChars == {"a", "/", "*", "?", "."}
PathChars == {"a", "/", "?", "."}

RECURSIVE StringsOver(_, _)
StringsOver(chars, n) ==
    IF n = 0 THEN {<<>>}
    ELSE LET shorter == StringsOver(chars, n - 1)
         IN  shorter \cup {Append(t, ch) : t \in {u \in shorter : Len(u) = n - 1}, ch \in chars}

\* the short globs, and "**" after and between the segments of a longer one
ScopeGlobs ==
    StringsOver(GlobChars, MaxGlobLen)
    \cup {<<"a", "/", "*", "*", "/", "a">>, <<"a", "/", "*", "*", "/", "*">>}
RelativePaths == StringsOver(PathChars, MaxPathLen)

\* globs.some((glob) => globToRegex(toPosix(glob)).test(p)) for the only glob:
\* new RegExp throws a SyntaxError, or test answers
GlobTest(relativePath, glob) ==
    IF ~RegexValid(globToRegex(toPosix(glob))) THEN "SyntaxError"
    ELSE IF matchesAnyGlob(relativePath, <<glob>>) THEN "true" ELSE "false"

InitGlob ==
    /\ preHooks = <<>>
    /\ postHooks = <<>>
    /\ defaultHooksRegistered = FALSE
    /\ lastRegistration = None
    /\ approvedScopeExpansions = NoExpansions
    /\ intentScopeCache = None
    /\ intentMapCache = None
    /\ loads = <<>>
    /\ files = [f \in Paths |-> None]
    /\ disk = Disk(None)
    /\ ledger = <<>>
    /\ calls = [c \in {1} |-> IdleCall]
    /\ task = FreshTask
    /\ handshake = IdleHandshake
    /\ fnInput \in {Some([relativePath |-> p, glob |-> g]) :
                       p \in RelativePaths, g \in ScopeGlobs}
    /\ fnOutput = None

\* matchesAnyGlob is applied to the input
MatchesAnyGlob ==
    /\ fnOutput = None
    /\ fnOutput' = Some(GlobTest(Get(fnInput).relativePath, Get(fnInput).glob))
    /\ UNCHANGED <<fnInput, calls, task, handshake, approvedScopeExpansions,
                   intentScopeCache, files, disk, intentMapCache, loads, ledger>>
    /\ hooksUnchanged

NextGlob == MatchesAnyGlob

SpecGlob == InitGlob /\ [][NextGlob]_vars

(***************************************************************************)
(* SpecChain: one call through a chain of pre-hooks registered before it,  *)
(* under the critical names and one other name                             *)
(***************************************************************************)
ChainPreNames == CRITICAL_PRE_HOOKS \cup {"preA"}
ChainPreFns == PreTestFns \cup {"denyNoReasonFn", "denyEmptyReasonFn", "denyReportedFn"}

\* the registries of up to three pre-hooks under different names
ChainRegistries ==
    {<<HookEntry(n1, f1)>> : n1 \in ChainPreNames, f1 \in ChainPreFns}
    \cup {<<HookEntry(n[1], f1), HookEntry(n[2], f2)>> :
             n \in {m \in [1..2 -> ChainPreNames] : m[1] # m[2]},
             f1 \in ChainPreFns, f2 \in ChainPreFns}
    \cup {<<HookEntry(n[1], "throwFn"), HookEntry(n[2], f2), HookEntry(n[3], f3)>> :
             n \in {m \in [1..3 -> ChainPreNames] : m[1] # m[2] /\ m[1] # m[3] /\ m[2] # m[3]},
             f2 \in ChainPreFns, f3 \in ChainPreFns}

InitChain ==
    /\ preHooks \in ChainRegistries
    /\ postHooks = <<HookEntry("postA", "okFn")>>
    /\ defaultHooksRegistered = FALSE
    /\ lastRegistration = None
    /\ approvedScopeExpansions = NoExpansions
    /\ InitWorld
    /\ files = [f \in Paths |-> Some(1)]
    /\ disk = Disk(None)
    /\ calls = [c \in {1} |-> IdleCall]

NextChain ==
    \/ \E c \in CallIds : executeTool(c, LiveInput[1], LiveInput[2], LiveInput[3])
    \/ \E c \in CallIds : TestHookResume(c)
    \/ \E c \in CallIds : PreHookReturn(c)
    \/ \E c \in CallIds : PreHookThrown(c)
    \/ \E c \in CallIds : PreErrorHandled(c)
    \/ \E c \in CallIds : ExecuteReturn(c)
    \/ \E c \in CallIds : ExecuteThrow(c)
    \/ \E c \in CallIds : PostHookReturn(c)

SpecChain == InitChain /\ [][NextChain]_vars

(***************************************************************************)
(* SpecCapability: hooks throw and the capabilities that report it may     *)
(* throw as well                                                           *)
(***************************************************************************)
CapabilityPreHooks ==
    {<<>>} \cup {<<HookEntry(n, f)>> : n \in {"preA", "hitlPreHook"}, f \in {"allowFn", "throwFn"}}
CapabilityPostHooks ==
    {<<HookEntry("postA", f1), HookEntry("postB", f2)>> : f1 \in PostTestFns, f2 \in PostTestFns}

InitCapability ==
    /\ preHooks \in CapabilityPreHooks
    /\ postHooks \in CapabilityPostHooks
    /\ defaultHooksRegistered = FALSE
    /\ lastRegistration = None
    /\ approvedScopeExpansions = NoExpansions
    /\ InitWorld
    /\ files = [f \in Paths |-> Some(1)]
    /\ disk = Disk(None)
    /\ calls = [c \in {1} |-> IdleCall]

NextCapability ==
    \/ \E c \in CallIds : executeTool(c, LiveInput[1], LiveInput[2], LiveInput[3])
    \/ \E c \in CallIds : TestHookResume(c)
    \/ \E c \in CallIds : PreHookReturn(c)
    \/ \E c \in CallIds : PreHookThrown(c)
    \/ \E c \in CallIds : PreErrorHandled(c)
    \/ \E c \in CallIds : ExecuteReturn(c)
    \/ \E c \in CallIds : ExecuteThrow(c)
    \/ \E c \in CallIds : PostHookReturn(c)
    \/ \E c \in CallIds : PostHookThrown(c)
    \/ \E c \in CallIds : PostErrorHandled(c)
    \/ \E c \in CallIds : HandleErrorThrows(c)
    \/ \E c \in CallIds : PushToolResultThrows(c)

SpecCapability == InitCapability /\ [][NextCapability]_vars

(***************************************************************************)
(* SpecTraversal: the scope gate on paths with "." and ".." segments       *)
(***************************************************************************)
\* a/x and b/y, each written plainly, through the other directory and from
\* the root
TraversalPaths ==
    {PathA, PathB,
     <<"a", "/", ".", ".", "/", "b", "/", "y">>,
     <<"b", "/", ".", ".", "/", "a", "/", "x">>,
     <<"a", "/", ".", "/", "x">>,
     Cwd \o <<"/", "a", "/", ".", ".", "/", "b", "/", "y">>,
     Cwd \o <<"/", "b", "/", ".", ".", "/", "a", "/", "x">>}

TraversalInputs ==
    {<<t, Payload(Some(p), None, <<>>, Some(1), o, None),
       Session(Some("INT-001"), Some(Cwd), FALSE)>> :
        t \in {"write_to_file", "apply_diff"}, p \in TraversalPaths,
        o \in {None, Some(computeContentHash(0)), Some(computeContentHash(1))}}

InitTraversal ==
    /\ preHooks = <<HookEntry("scopeAndLock", "scopeAndLockPreHook")>>
    /\ postHooks = <<>>
    /\ defaultHooksRegistered = FALSE
    /\ lastRegistration = None
    /\ approvedScopeExpansions = NoExpansions
    /\ InitWorld
    /\ files = [f \in Paths |-> Some(0)]
    /\ disk = Disk(Some(IntentsFile(1, "INT-001" :> <<GlobA>>)))
    /\ calls = [c \in {1} |-> IdleCall]

NextTraversal ==
    \/ \E c \in CallIds, in \in TraversalInputs : executeTool(c, in[1], in[2], in[3])
    \/ \E c \in CallIds : ScopeStatDone(c)
    \/ \E c \in CallIds : ScopeReadDone(c)
    \/ \E c \in CallIds : LockReadDone(c)
    \/ \E c \in CallIds : PreHookReturn(c)
    \/ \E c \in CallIds : ExecuteReturn(c)
    \/ \E c \in CallIds : ExecuteThrow(c)

SpecTraversal == InitTraversal /\ [][NextTraversal]_vars

(***************************************************************************)
(* What a call has done                                                    *)
(***************************************************************************)
Started(cr) == cr.pc # "idle"
Done(cr) == cr.pc = "done"

\* the execute closure has been invoked
Executed(cr) == \E k \in 1..Len(cr.events) : cr.events[k] = <<"start", "execute">>

\* how often an event occurs
Count(events, e) == Cardinality({k \in 1..Len(events) : events[k] = e})

\* how often a hook or the closure has been started, and has completed
Starts(cr, name) == Count(cr.events, <<"start", name>>)
Completions(cr, name) == Count(cr.events, <<"end", name>>) + Count(cr.events, <<"throw", name>>)

HookNames(reg) == [i \in 1..Len(reg) |-> reg[i].name]

\* every step is started and completes before the next one starts
NoOverlap(events) ==
    \A k \in 1..Len(events) :
        IF k % 2 = 1 THEN events[k][1] = "start"
        ELSE events[k][1] \in {"end", "throw"} /\ events[k][2] = events[k - 1][2]

\* the steps in the order of their starts
StepNames(events) == [k \in 1..(Len(events) \div 2) |-> events[2 * k - 1][2]]

PushCodes(cr) == [k \in 1..Len(cr.pushes) |-> cr.pushes[k].code]
CountPush(cr, code) == Cardinality({k \in 1..Len(cr.pushes) : cr.pushes[k].code = code})

(***************************************************************************)
(* C1. In a call in which no pre-hook denies, every registered pre-hook    *)
(* runs to completion in registration order, then the execute closure,     *)
(* then every registered post-hook in registration order; no step starts   *)
(* before the step before it has completed.                                *)
(***************************************************************************)
C1_PreExecutePostOrder ==
    \A c \in CallIds :
        LET cr == calls[c]
        IN  /\ Started(cr) => NoOverlap(cr.events)
            /\ Done(cr) /\ cr.allowed =>
                  /\ Len(cr.events) % 2 = 0
                  /\ StepNames(cr.events) =
                        HookNames(cr.preSnap) \o <<"execute">> \o HookNames(cr.postSnap)

C1_Witness ==
    \E c \in CallIds :
        /\ Done(calls[c])
        /\ calls[c].allowed
        /\ calls[c].events =
              <<<<"start", "preA">>, <<"end", "preA">>, <<"start", "preB">>, <<"end", "preB">>,
                <<"start", "execute">>, <<"end", "execute">>,
                <<"start", "postA">>, <<"end", "postA">>>>

(***************************************************************************)
(* C2. Once a pre-hook has returned a decision with allow = false, no      *)
(* pre-hook registered after it runs in that call, the execute closure is  *)
(* not invoked, and the call returns allowed = false.                      *)
(***************************************************************************)
C2_DenyStopsIteration ==
    \A c \in CallIds :
        LET cr == calls[c]
        IN  \A k \in 1..Len(cr.preSnap) :
                (/\ Started(cr)
                 /\ cr.preSnap[k].fn = "denyFn"
                 /\ Count(cr.events, <<"end", cr.preSnap[k].name>>) > 0)
                => /\ \A j \in (k + 1)..Len(cr.preSnap) : Starts(cr, cr.preSnap[j].name) = 0
                   /\ ~Executed(cr)
                   /\ Done(cr) => ~cr.allowed /\ cr.outcome = "return"

C2_Witness ==
    \E c \in CallIds :
        /\ Done(calls[c])
        /\ Len(calls[c].preSnap) = 2
        /\ calls[c].preSnap[1].fn = "denyFn"
        /\ calls[c].preSnap[2].fn = "allowFn"
        /\ Starts(calls[c], calls[c].preSnap[1].name) = 1
        /\ ~calls[c].allowed

(***************************************************************************)
(* C10. Every registered post-hook runs exactly once in every call,        *)
(* whether the call was allowed or denied and whether the execute closure  *)
(* returned or threw.                                                      *)
(***************************************************************************)
C10_PostHooksRunOnce ==
    \A c \in CallIds :
        LET cr == calls[c]
        IN  Done(cr) =>
               \A k \in 1..Len(cr.postSnap) :
                   /\ Starts(cr, cr.postSnap[k].name) = 1
                   /\ Completions(cr, cr.postSnap[k].name) = 1

C10_Witness ==
    \E c \in CallIds :
        /\ Done(calls[c])
        /\ ~calls[c].allowed
        /\ Len(calls[c].postSnap) = 2
        /\ \A k \in 1..2 : Starts(calls[c], calls[c].postSnap[k].name) = 1


(***************************************************************************)
(* SpecExpansion: two agents with different intents ask for expansions     *)
(***************************************************************************)
\* writes outside the scope the intent declares, with every kind of request,
\* and a write inside it
ExpansionInputs ==
    {<<"write_to_file", Payload(Some(PathB), None, <<>>, Some(1), None, e),
       Session(Some("INT-001"), Some(Cwd), FALSE)>> :
        e \in {None, Some([additional_globs |-> <<>>]),
               Some([additional_globs |-> <<GlobB>>])}}
    \cup
    {<<"write_to_file", Payload(Some(p), None, <<>>, Some(1), None,
                                Some([additional_globs |-> <<GlobA, GlobB>>])),
       Session(Some("INT-002"), Some(Cwd), FALSE)>> : p \in Paths}

\* the agents that call at the same time
MaxExpansionCalls == 2

\* the scope gate alone, registered as the tests of the gate register it
InitExpansion ==
    /\ preHooks = <<HookEntry("scopeAndLock", "scopeAndLockPreHook")>>
    /\ postHooks = <<>>
    /\ defaultHooksRegistered = FALSE
    /\ lastRegistration = None
    /\ approvedScopeExpansions = NoExpansions
    /\ InitWorld
    /\ files = [f \in Paths |-> Some(0)]
    /\ disk = Disk(Some(IntentsFile(1, "INT-001" :> <<GlobA>> @@ "INT-002" :> <<GlobB>>)))
    /\ calls = [c \in 1..MaxExpansionCalls |-> IdleCall]

NextExpansion ==
    \/ \E c \in CallIds, in \in ExpansionInputs : executeTool(c, in[1], in[2], in[3])
    \/ \E c \in CallIds : ScopeStatDone(c)
    \/ \E c \in CallIds : ScopeReadDone(c)
    \/ \E c \in CallIds : ExpansionApproved(c)
    \/ \E c \in CallIds : ExpansionRejected(c)
    \/ \E c \in CallIds : PreHookReturn(c)
    \/ \E c \in CallIds : ExecuteReturn(c)
    \/ \E c \in CallIds : ExecuteThrow(c)

SpecExpansion == InitExpansion /\ [][NextExpansion]_vars


(***************************************************************************)
(* SpecEvidence: calls on a workspace whose active_intents.yaml and         *)
(* intent_map.md are absent, well formed, or cannot be parsed or read      *)
(***************************************************************************)
EvidenceIntents ==
    {None, Some(IntentsFile(1, "INT-001" :> <<GlobA>>)), Some(MalformedIntentsFile(1))}
EvidenceMaps ==
    {None, Some(MapFile(1, "INT-001" :> <<"INT-002">>)), Some(UnreadableMapFile(1))}

EvidenceInputs ==
    {<<"write_to_file", Payload(Some(PathA), None, <<>>, Some(1), None, None),
       Session(Some("INT-001"), Some(Cwd), umc)>> : umc \in BOOLEAN}

\* the registries after registerDefaultHooks, and those of the tests of the
\* scope gate, which register it alone under the name scopeAndLock
EvidenceRegistries ==
    {<<DefaultPreHooks, DefaultPostHooks, TRUE>>,
     <<<<HookEntry("scopeAndLock", "scopeAndLockPreHook")>>, <<>>, FALSE>>}

InitEvidence ==
    /\ \E r \in EvidenceRegistries :
          /\ preHooks = r[1]
          /\ postHooks = r[2]
          /\ defaultHooksRegistered = r[3]
    /\ lastRegistration = None
    /\ approvedScopeExpansions = NoExpansions
    /\ InitWorld
    /\ files = [f \in Paths |-> Some(0)]
    /\ disk \in {[p \in FilePaths |->
                     IF p = IntentsFilePath THEN y
                     ELSE IF p = MapPath(Cwd) THEN m ELSE None] :
                    y \in EvidenceIntents, m \in EvidenceMaps}
    /\ calls = [c \in {1} |-> IdleCall]

\* a file of .orchestration is deleted
RemoveFile(p) ==
    /\ IsSome(disk[p])
    /\ disk' = [disk EXCEPT ![p] = None]
    /\ hooksUnchanged
    /\ UNCHANGED <<approvedScopeExpansions, intentScopeCache, intentMapCache, files, loads,
                   ledger, calls, task, handshake, fnInput, fnOutput>>

NextEvidence ==
    \/ \E c \in CallIds, in \in EvidenceInputs : executeTool(c, in[1], in[2], in[3])
    \/ \E p \in {IntentsFilePath, MapPath(Cwd)} : RemoveFile(p)
    \/ \E c \in CallIds : CurateReadDone(c)
    \/ \E c \in CallIds : ScopeStatDone(c)
    \/ \E c \in CallIds : ScopeReadDone(c)
    \/ \E c \in CallIds : HitlApproved(c)
    \/ \E c \in CallIds : HitlRejected(c)
    \/ \E c \in CallIds : PreHookReturn(c)
    \/ \E c \in CallIds : PreHookThrown(c)
    \/ \E c \in CallIds : PreErrorHandled(c)
    \/ \E c \in CallIds : ExecuteReturn(c)
    \/ \E c \in CallIds : ExecuteThrow(c)
    \/ \E c \in CallIds : TraceDepsDone(c)
    \/ \E c \in CallIds : TraceDepsReadDone(c)
    \/ \E c \in CallIds : TraceReadDone(c)
    \/ \E c \in CallIds : TraceAppendDone(c)
    \/ \E c \in CallIds : PostprocessDone(c)
    \/ \E c \in CallIds : PostHookReturn(c)
    \/ \E c \in CallIds : PostHookThrown(c)
    \/ \E c \in CallIds : PostErrorHandled(c)

SpecEvidence == InitEvidence /\ [][NextEvidence]_vars


(***************************************************************************)
(* SpecHitl: the default chain with a dialog that is answered or fails     *)
(***************************************************************************)
\* every tool name, on a file in the scope of the intent, in every session
HitlInputs ==
    {<<t, Payload(Some(PathA), None, <<>>, Some(1), None, None), s>> :
        t \in ToolNames, s \in Sessions}

InitHitl ==
    /\ preHooks = DefaultPreHooks
    /\ postHooks = DefaultPostHooks
    /\ defaultHooksRegistered = TRUE
    /\ lastRegistration = None
    /\ approvedScopeExpansions = NoExpansions
    /\ InitWorld
    /\ files = [f \in Paths |-> Some(0)]
    /\ disk = Disk(Some(IntentsFile(1, "INT-001" :> <<GlobA>>)))
    /\ calls = [c \in {1} |-> IdleCall]

NextHitl ==
    \/ \E c \in CallIds, in \in HitlInputs : executeTool(c, in[1], in[2], in[3])
    \/ \E c \in CallIds : CurateReadDone(c)
    \/ \E c \in CallIds : ScopeStatDone(c)
    \/ \E c \in CallIds : ScopeReadDone(c)
    \/ \E c \in CallIds : HitlApproved(c)
    \/ \E c \in CallIds : HitlRejected(c)
    \/ \E c \in CallIds : HitlThrown(c)
    \/ \E c \in CallIds : PreHookReturn(c)
    \/ \E c \in CallIds : PreHookThrown(c)
    \/ \E c \in CallIds : PreErrorHandled(c)
    \/ \E c \in CallIds : ExecuteReturn(c)
    \/ \E c \in CallIds : ExecuteThrow(c)
    \/ \E c \in CallIds : TraceDepsDone(c)
    \/ \E c \in CallIds : TraceReadDone(c)
    \/ \E c \in CallIds : TraceAppendDone(c)
    \/ \E c \in CallIds : PostprocessDone(c)
    \/ \E c \in CallIds : PostHookReturn(c)

SpecHitl == InitHitl /\ [][NextHitl]_vars


(***************************************************************************)
(* The scope and the files a call of the default chain is judged against   *)
(***************************************************************************)
\* the names isMutatingTool and blockIfNoIntent list
MutatingSet == {t \in ToolNames : isMutatingTool(t)}

AffectedFiles(cr) == Classification(cr).affectedFiles

\* owned_scope of the call's intent in active_intents.yaml, [] if undeclared
DeclaredScope(cr) ==
    IF IsSome(intentsFile) /\ Get(cr.session.intent) \in DOMAIN Get(intentsFile).ownedScopeById
    THEN Get(intentsFile).ownedScopeById[Get(cr.session.intent)]
    ELSE <<>>

\* the declared scope followed by the expansions approved for the intent
EffectiveScope(cr) == DeclaredScope(cr) \o approvedScopeExpansions[Get(cr.session.intent)]

InScope(cr, affectedFile) ==
    matchesAnyGlob(RelativePath(Get(cr.session.cwd), affectedFile), EffectiveScope(cr))

\* the content of an affected file when the call started, None if absent
ContentAtStart(cr, affectedFile) ==
    IF ResolvedPath(Get(cr.session.cwd), affectedFile) \in DOMAIN cr.filesSnap
    THEN cr.filesSnap[ResolvedPath(Get(cr.session.cwd), affectedFile)] ELSE None

\* a mutating call from a session with a working directory and an intent
GatedCall(cr) ==
    /\ Started(cr)
    /\ isMutatingTool(normalizeToolName(cr.toolName))
    /\ IsSome(cr.session.cwd)
    /\ IsSome(cr.session.intent)

(***************************************************************************)
(* C3. Under the default chain, a call of a tool of the mutating set from  *)
(* a session with no active intent is refused: allowed = false, the        *)
(* execute closure is not invoked, and pushToolResult receives the         *)
(* NO_ACTIVE_INTENT tool_error exactly once.                               *)
(***************************************************************************)
C3_NoIntentBlocksMutatingSet ==
    \A c \in CallIds :
        LET cr == calls[c]
        IN  (/\ Started(cr)
             /\ cr.toolName \in MutatingSet
             /\ ~IsSome(cr.session.intent)
             /\ \E k \in 1..Len(cr.preSnap) : cr.preSnap[k].fn = "blockIfNoIntent")
            => /\ ~Executed(cr)
               /\ CountPush(cr, "NO_ACTIVE_INTENT") <= 1
               /\ Done(cr) =>
                     /\ ~cr.allowed
                     /\ CountPush(cr, "NO_ACTIVE_INTENT") = 1
                     /\ \A k \in 1..Len(cr.pushes) :
                            cr.pushes[k].code = "NO_ACTIVE_INTENT" =>
                                cr.pushes[k].type = "tool_error"

C3_Witness ==
    \E c \in CallIds :
        /\ Done(calls[c])
        /\ calls[c].toolName = "apply_diff"
        /\ ~IsSome(calls[c].session.intent)
        /\ ~calls[c].allowed
        /\ PushCodes(calls[c]) = <<"NO_ACTIVE_INTENT">>

(***************************************************************************)
(* C4. Under the default chain, the execute closure of a call whose        *)
(* normalized tool name is in the mutating set (the alias write_file       *)
(* included) is never reached while the session has no active intent.      *)
(***************************************************************************)
C4_NoIntentNeverExecutesNormalized ==
    \A c \in CallIds :
        LET cr == calls[c]
        IN  (/\ Started(cr)
             /\ isMutatingTool(normalizeToolName(cr.toolName))
             /\ ~IsSome(cr.session.intent))
            => ~Executed(cr)

(***************************************************************************)
(* C5. A mutating call from a session with a working directory and an      *)
(* active intent, one of whose affected files matches no glob of the       *)
(* effective scope, and for which no expansion is approved, is denied:     *)
(* allowed = false, the execute closure is not invoked, and pushToolResult *)
(* is called exactly once, with a SCOPE_VIOLATION that names the relative  *)
(* path of an affected file that is out of scope.                          *)
(***************************************************************************)
C5_OutOfScopeDenied ==
    \A c \in CallIds :
        LET cr == calls[c]
        IN  (/\ GatedCall(cr)
             /\ ~cr.expansionApproved
             /\ \E i \in 1..Len(AffectedFiles(cr)) : ~InScope(cr, AffectedFiles(cr)[i]))
            => /\ ~Executed(cr)
               /\ Done(cr) =>
                     /\ ~cr.allowed
                     /\ PushCodes(cr) = <<"SCOPE_VIOLATION">>
                     /\ cr.pushes[1].type = "tool_error"
                     /\ \E i \in 1..Len(AffectedFiles(cr)) :
                            /\ ~InScope(cr, AffectedFiles(cr)[i])
                            /\ cr.pushes[1].file_path =
                                  Some(RelativePath(Get(cr.session.cwd), AffectedFiles(cr)[i]))

C5_Witness ==
    \E c \in CallIds :
        /\ Done(calls[c])
        /\ GatedCall(calls[c])
        /\ AffectedFiles(calls[c]) = <<PathA, PathB>>
        /\ EffectiveScope(calls[c]) = <<GlobA>>
        /\ ~calls[c].expansionApproved
        /\ PushCodes(calls[c]) = <<"SCOPE_VIOLATION">>
        /\ calls[c].pushes[1].file_path = Some(PathB)


(***************************************************************************)
(* C6. When the owned_scope of the active intent is empty and no expansion *)
(* has been approved for it, every call of a tool of the mutating set is   *)
(* denied with SCOPE_VIOLATION.                                            *)
(***************************************************************************)
EmptyScopeCall(cr) ==
    /\ Started(cr)
    /\ cr.toolName \in MutatingSet
    /\ IsSome(cr.session.intent)
    /\ EffectiveScope(cr) = <<>>
    /\ ~cr.expansionApproved

DeniedWithScopeViolation(cr) ==
    /\ ~Executed(cr)
    /\ Done(cr) => ~cr.allowed /\ PushCodes(cr) = <<"SCOPE_VIOLATION">>

C6_EmptyScopeDeniesEveryCall ==
    \A c \in CallIds : EmptyScopeCall(calls[c]) => DeniedWithScopeViolation(calls[c])

\* C6 as the code has it: the call is denied with SCOPE_VIOLATION if, besides,
\* the session has a working directory and the payload names an affected file
C6_EmptyScopeDeniesCallOnFiles ==
    \A c \in CallIds :
        (/\ EmptyScopeCall(calls[c])
         /\ IsSome(calls[c].session.cwd)
         /\ Len(AffectedFiles(calls[c])) > 0)
        => DeniedWithScopeViolation(calls[c])

C6_Witness ==
    \E c \in CallIds :
        /\ Done(calls[c])
        /\ EmptyScopeCall(calls[c])
        /\ IsSome(calls[c].session.cwd)
        /\ IsSome(intentsFile)
        /\ AffectedFiles(calls[c]) = <<PathA>>
        /\ ~calls[c].allowed
        /\ PushCodes(calls[c]) = <<"SCOPE_VIOLATION">>

(***************************************************************************)
(* C7. A gated call whose affected files are all in scope and whose        *)
(* payload carries a string observed_content_hash is denied if the hash of *)
(* the content of an existing affected file differs from the observed      *)
(* value: allowed = false, the execute closure is not invoked, and         *)
(* pushToolResult is called exactly once, with a STALE_FILE that carries   *)
(* the observed and the current hash, which differ.                        *)
(***************************************************************************)
\* every affected file matched the effective scope when the gate looked (no
\* expansion was approved in the call, so the scope is the one it looked at)
AllInScope(cr) ==
    /\ ~cr.expansionApproved
    /\ \A i \in 1..Len(AffectedFiles(cr)) : InScope(cr, AffectedFiles(cr)[i])

\* an existing affected file whose content does not hash to observedHash
SomeFileDiffers(cr, observedHash) ==
    \E i \in 1..Len(AffectedFiles(cr)) :
        /\ IsSome(ContentAtStart(cr, AffectedFiles(cr)[i]))
        /\ computeContentHash(Get(ContentAtStart(cr, AffectedFiles(cr)[i]))) # observedHash

DeniedAsStale(cr) ==
    /\ ~Executed(cr)
    /\ Done(cr) =>
          /\ ~cr.allowed
          /\ PushCodes(cr) = <<"STALE_FILE">>
          /\ IsSome(cr.pushes[1].observed_content_hash)
          /\ IsSome(cr.pushes[1].current_content_hash)
          /\ cr.pushes[1].observed_content_hash # cr.pushes[1].current_content_hash

GateReturned(cr) ==
    /\ cr.pc = "pre"
    /\ cr.hpc = "ret"
    /\ cr.cur.fn = "scopeAndLockPreHook"

UnderDefaultChain(cr) == Started(cr) /\ cr.preSnap = DefaultPreHooks

SameFileSameHash(cr1, cr2) ==
    /\ UnderDefaultChain(cr1)
    /\ UnderDefaultChain(cr2)
    /\ AffectedFiles(cr1) = AffectedFiles(cr2)
    /\ AllInScope(cr1)
    /\ AllInScope(cr2)
    /\ cr1.payload.observed_content_hash = cr2.payload.observed_content_hash
    /\ \A i \in 1..Len(AffectedFiles(cr1)) :
           /\ IsSome(ContentAtStart(cr1, AffectedFiles(cr1)[i]))
           /\ cr1.payload.observed_content_hash =
                 Some(computeContentHash(Get(ContentAtStart(cr1, AffectedFiles(cr1)[i]))))

C8_AtMostOneCallMutates ==
    \A c1 \in CallIds : \A c2 \in CallIds \ {c1} :
        SameFileSameHash(calls[c1], calls[c2])
        => ~(Executed(calls[c1]) /\ Executed(calls[c2]))

(***************************************************************************)
(* C11. Within a call, post-hooks run if and only if the execute closure   *)
(* was reached in that call.                                               *)
(***************************************************************************)
\* a post-hook of the call has been started
SomePostHookRan(cr) ==
    \E k \in 1..Len(cr.postSnap) : Starts(cr, cr.postSnap[k].name) > 0

\* the place of the first event e in events, 0 if there is none
FirstAt(events, e) ==
    IF \E k \in 1..Len(events) : events[k] = e
    THEN CHOOSE k \in 1..Len(events) :
             events[k] = e /\ \A j \in 1..(k - 1) : events[j] # e
    ELSE 0

\* the place at which the execute closure returned or threw, 0 if it did not
ExecuteCompletedAt(cr) ==
    FirstAt(cr.events, <<"end", "execute">>) + FirstAt(cr.events, <<"throw", "execute">>)

C11_PostHooksIffExecuteReached ==
    \A c \in CallIds :
        Done(calls[c]) /\ Len(calls[c].postSnap) > 0
        => (SomePostHookRan(calls[c]) <=> Executed(calls[c]))

\* C11 as the code has it: the post-hooks run whether or not the execute
\* closure was reached, and when it was reached they start after it completed
C11_PostHooksRunReachedOrNot ==
    \A c \in CallIds :
        LET cr == calls[c]
        IN  /\ Done(cr) =>
                 \A k \in 1..Len(cr.postSnap) : Starts(cr, cr.postSnap[k].name) > 0
            /\ Started(cr) /\ Executed(cr) =>
                 \A k \in 1..Len(cr.postSnap) :
                     Starts(cr, cr.postSnap[k].name) > 0 =>
                         /\ ExecuteCompletedAt(cr) > 0
                         /\ ExecuteCompletedAt(cr) <
                               FirstAt(cr.events, <<"start", cr.postSnap[k].name>>)

C11_Witness ==
    \E c \in CallIds :
        /\ Done(calls[c])
        /\ ~Executed(calls[c])
        /\ HookNames(calls[c].postSnap) = <<"postB">>
        /\ Starts(calls[c], "postB") = 1

(***************************************************************************)
(* C12. In every call the execute closure is invoked exactly once if the   *)
(* pre-hook chain allowed the call and not at all otherwise; it is not     *)
(* invoked a second time after a post-hook failed.                         *)
(***************************************************************************)
C12_ExecuteOnceIffAllowed ==
    \A c \in CallIds :
        LET cr == calls[c]
        IN  /\ Started(cr) => Starts(cr, "execute") <= 1
            /\ Started(cr) /\ ~cr.allowed => Starts(cr, "execute") = 0
            /\ Done(cr) => Starts(cr, "execute") = IF cr.allowed THEN 1 ELSE 0
            /\ Done(cr) => Completions(cr, "execute") = Starts(cr, "execute")

C12_Witness ==
    \E c \in CallIds :
        /\ Done(calls[c])
        /\ calls[c].allowed
        /\ calls[c].handled = <<<<"post-hook", "postA">>>>
        /\ Starts(calls[c], "execute") = 1

(***************************************************************************)
(* C13. No exception thrown by a pre-hook or a post-hook leaves            *)
(* executeTool: whichever hooks throw, the call ends by a throw only if    *)
(* the execute closure threw, and then with the error of the closure.      *)
(***************************************************************************)
\* a hook of the call has thrown
SomeHookThrew(cr) ==
    \E k \in 1..Len(cr.events) :
        cr.events[k][1] = "throw" /\ cr.events[k][2] # "execute"

ClosureThrew(cr) == Count(cr.events, <<"throw", "execute">>) > 0

C13_HookExceptionsContained ==
    \A c \in CallIds :
        LET cr == calls[c]
        IN  Done(cr) =>
               /\ cr.outcome = "throw" <=> ClosureThrew(cr)
               /\ cr.outcome = "throw" => cr.error = Some("error")
               /\ cr.outcome = "return" => cr.error = None
               /\ Len(cr.handled) = Cardinality({k \in 1..Len(cr.events) :
                                         /\ cr.events[k][1] = "throw"
                                         /\ cr.events[k][2] # "execute"})

C13_Witness ==
    \E c \in CallIds :
        /\ Done(calls[c])
        /\ calls[c].handled = <<<<"pre-hook", "preA">>, <<"post-hook", "postA">>>>
        /\ ~ClosureThrew(calls[c])
        /\ calls[c].outcome = "return"

WriterPreconditions(cr) ==
    /\ cr.allowed
    /\ ~IsSome(cr.error)
    /\ Classification(cr).risk = "DESTRUCTIVE"
    /\ Len(AffectedFiles(cr)) > 0
    /\ IsSome(cr.session.cwd)

\* the ledger lines written for call c
LinesOf(c) ==
    {k \in 1..Len(ledger) :
        \E j \in 1..Len(ledger[k].files) : ledger[k].files[j].hook_invocation_id = c}

C15_LedgerOnlyOnPreconditions ==
    /\ \A k \in 1..Len(ledger) :
           \E c \in CallIds :
               /\ \A j \in 1..Len(ledger[k].files) : ledger[k].files[j].hook_invocation_id = c
               /\ WriterPreconditions(calls[c])
    /\ \A c \in CallIds :
           (/\ Started(calls[c])
            /\ \/ Classification(calls[c]).risk = "SAFE"
               \/ ~calls[c].allowed
               \/ IsSome(calls[c].error))
           => LinesOf(c) = {}

C15_Witness ==
    \E c \in CallIds :
        /\ Done(calls[c])
        /\ IsSome(calls[c].error)
        /\ Classification(calls[c]).risk = "DESTRUCTIVE"
        /\ Len(AffectedFiles(calls[c])) > 0
        /\ IsSome(calls[c].session.cwd)
        /\ IsSome(files[PathA])
        /\ ledger = <<>>

(***************************************************************************)
(* C16. For every invocation that satisfies the preconditions of the       *)
(* writer exactly one line is appended to agent_trace.jsonl; the id of the *)
(* line and the hook_invocation_id of its files are the identifier of the  *)
(* invocation, and related holds the specification of the active intent.   *)
(***************************************************************************)
\* the one line of call c, with the identifiers and the intent of the call
OneLineOf(c) ==
    /\ Cardinality(LinesOf(c)) = 1
    /\ \A k \in LinesOf(c) :
           /\ ledger[k].id = c
           /\ Len(ledger[k].files) > 0
           /\ \A j \in 1..Len(ledger[k].files) :
                  /\ ledger[k].files[j].hook_invocation_id = c
                  /\ \E r \in 1..Len(ledger[k].files[j].related) :
                         ledger[k].files[j].related[r] =
                             [type |-> "specification",
                              value |-> IF IsSome(calls[c].session.intent)
                                        THEN Get(calls[c].session.intent) ELSE "UNKNOWN"]

SomeAffectedFileExists(cr) ==
    \E i \in 1..Len(AffectedFiles(cr)) :
        IsSome(ReadFile(Get(cr.session.cwd), AffectedFiles(cr)[i]))

IsPrefix(s, t) == Len(s) <= Len(t) /\ SubSeq(t, 1, Len(s)) = s

\* a line holds the record of one invocation and nothing else
WholeRecord(line) ==
    /\ line.id \in CallIds
    /\ Len(line.files) > 0
    /\ \A j \in 1..Len(line.files) : line.files[j].hook_invocation_id = line.id

UniqueNames(reg) ==
    \A i \in 1..Len(reg) : \A j \in 1..Len(reg) : reg[i].name = reg[j].name => i = j

\* the registry the latest registration wrote
RegistryOf(r) == IF r.registry = "pre" THEN preHooks ELSE postHooks

C18_ReRegistrationKeepsPlace ==
    /\ UniqueNames(preHooks)
    /\ UniqueNames(postHooks)
    /\ IsSome(lastRegistration) =>
          LET r == Get(lastRegistration)
              now == RegistryOf(r)
          IN  IF HasName(r.before, r.name)
              THEN /\ Len(now) = Len(r.before)
                   /\ \A i \in 1..Len(now) :
                          now[i] = IF r.before[i].name = r.name
                                   THEN HookEntry(r.name, r.fn) ELSE r.before[i]
              ELSE now = Append(r.before, HookEntry(r.name, r.fn))

C18_Witness ==
    /\ IsSome(lastRegistration)
    /\ Get(lastRegistration).registry = "pre"
    /\ Len(Get(lastRegistration).before) = 3
    /\ Get(lastRegistration).before[1] = HookEntry("preB", "allowFn")
    /\ Get(lastRegistration).name = "preB"
    /\ Get(lastRegistration).fn = "denyFn"
    /\ preHooks[1] = HookEntry("preB", "denyFn")

(***************************************************************************)
(* C19. A call sees a stable snapshot of the registries: a registerPreHook *)
(* registerPostHook, unregister or clearHooks made while the call is       *)
(* suspended does not change which hooks the call runs.                    *)
(***************************************************************************)
C19_StableRegistrySnapshot ==
    \A c \in CallIds :
        LET cr == calls[c]
        IN  Done(cr) /\ cr.allowed =>
               StepNames(cr.events) =
                   HookNames(cr.preSnap) \o <<"execute">> \o HookNames(cr.postSnap)

(***************************************************************************)
(* C20. A refusal of the human in the HITL hook is a deny, not an          *)
(* exception: for a DESTRUCTIVE tool every answer other than Approve makes *)
(* hitlPreHook push exactly one HITL_REJECT tool_error and return          *)
(* allow = false with alreadyReported = true, and the execute closure does *)
(* not run; for a SAFE tool the hook allows without asking.                *)
(***************************************************************************)
\* hitlPreHook has returned and the engine has not yet looked at the decision
HitlReturned(cr) ==
    /\ cr.pc = "pre"
    /\ cr.hpc = "ret"
    /\ cr.cur.fn = "hitlPreHook"

C20_HumanRejectionIsDeny ==
    \A c \in CallIds :
        LET cr == calls[c]
        IN  /\ Started(cr) /\ IsSome(cr.response) /\ cr.response # Some("Approve") =>
                 /\ Classification(cr).risk = "DESTRUCTIVE"
                 /\ Count(cr.events, <<"throw", "hitlPreHook">>) = 0
                 /\ cr.handled = <<>>
                 /\ PushCodes(cr) = <<"HITL_REJECT">>
                 /\ cr.pushes[1].type = "tool_error"
                 /\ HitlReturned(cr) => cr.decision = Some(Decision(FALSE, None, Some(TRUE)))
                 /\ ~Executed(cr)
                 /\ Done(cr) => ~cr.allowed
            /\ Started(cr) /\ Classification(cr).risk = "SAFE" =>
                 /\ cr.hpc # "hitl_ask"
                 /\ cr.response = None
                 /\ HitlReturned(cr) => cr.decision = Allow
            /\ cr.hpc = "hitl_ask" => Classification(cr).risk = "DESTRUCTIVE"

C20_Witness ==
    \E c \in CallIds :
        /\ Done(calls[c])
        /\ calls[c].response = Some("undefined")
        /\ Classification(calls[c]).risk = "DESTRUCTIVE"
        /\ PushCodes(calls[c]) = <<"HITL_REJECT">>
        /\ ~calls[c].allowed

(***************************************************************************)
(* The handshake of a session                                              *)
(***************************************************************************)
\* the requested id is declared in the workspace's active_intents file
IntentPresent(id) == IsSome(intentsFile) /\ id \in DOMAIN Get(intentsFile).ownedScopeById

\* the texts select_active_intent pushes when it fails
FailureTexts ==
    {Msg("text", "Missing value for required parameter 'intent_id'"),
     Msg("text", "Handshake failed: active_intents.yaml was not found"),
     Msg("text", "Handshake failed: unknown intent_id")}

\* blockIfNoIntent has allowed the call: the hook registered after it has started
GatePassed(cr) ==
    \E k \in 1..Len(cr.events) : cr.events[k] = <<"start", "scopeAndLockPreHook">>

Structure(text) == [k \in 1..Len(createSourceFile(text).statements) |->
                       createSourceFile(text).statements[k].kind]

\* the line of the k-th statement of a text
LineOfStatement(text, k) ==
    LET offset == createSourceFile(text).statements[k].end - 1
    IN  1 + Cardinality({i \in 1..offset : text[i] = NL})

\* the k-th statement has its line for itself
AloneOnLine(text, k) ==
    \A j \in 1..Len(createSourceFile(text).statements) :
        j # k => LineOfStatement(text, j) # LineOfStatement(text, k)

\* the range that covers the k-th statement of a text
RangeOfStatement(text, k) ==
    Some([startLine |-> LineOfStatement(text, k), endLine |-> LineOfStatement(text, k)])

Computed == IsSome(fnInput) /\ IsSome(fnOutput)

(***************************************************************************)
(* C22. Two texts without syntax error that have the same statements and   *)
(* differ only in whitespace and comments get the same digest, with        *)
(* strategy ast_canonical, when each is hashed over the range of lines     *)
(* that covers the same statement.                                         *)
(***************************************************************************)
C22_EquivalentTextsSameDigest ==
    Computed =>
        LET in == Get(fnInput)
            text == in.fileContent
        IN  \A k \in 1..Len(Structure(text)) :
                (/\ ~HasSyntaxError(text)
                 /\ in.insertedContent = None
                 /\ AloneOnLine(text, k)
                 /\ in.modifiedRange = RangeOfStatement(text, k))
                => \A other \in Texts :
                       (/\ Structure(other) = Structure(text)
                        /\ AloneOnLine(other, k))
                       => LET r == computeContentHashOf(
                                       ComputeContentHashInput(other, RangeOfStatement(other, k), None),
                                       createSourceFile(other))
                          IN  /\ r.contentHash = Get(fnOutput).contentHash
                              /\ r.strategy = "ast_canonical"
                              /\ Get(fnOutput).strategy = "ast_canonical"

(***************************************************************************)
(* C23. For a text with a syntax error, with or without inserted content,  *)
(* computeContentHash returns strategy normalized_string and the digest of *)
(* the normalized inserted content when that is not empty, and of the      *)
(* normalized text otherwise.                                              *)
(***************************************************************************)
C23_SyntaxErrorFallsBack ==
    Computed =>
        LET in == Get(fnInput)
            hint == IF IsSome(in.insertedContent) THEN Get(in.insertedContent) ELSE <<>>
        IN  HasSyntaxError(in.fileContent) =>
                /\ Get(fnOutput).strategy = "normalized_string"
                /\ Get(fnOutput).contentHash =
                       <<"sha256:",
                         sha256Hex(IF normalizeStringForHash(hint) # <<>>
                                   THEN normalizeStringForHash(hint)
                                   ELSE normalizeStringForHash(in.fileContent))>>

(***************************************************************************)
(* C24. The digest of the empty text differs from the digest of every text *)
(* made of whitespace only.                                                *)
(***************************************************************************)
C24_EmptyDistinctFromWhitespace ==
    Computed =>
        LET in == Get(fnInput)
        IN  (/\ in.fileContent = <<>>
             /\ in.modifiedRange = None
             /\ in.insertedContent = None)
            => \A other \in Texts :
                   (other # <<>> /\ \A i \in 1..Len(other) : other[i] \in WhiteSpace)
                   => \A parsed \in ParseOutcomes(other) :
                          computeContentHashOf(ComputeContentHashInput(other, None, None), parsed).contentHash
                              # Get(fnOutput).contentHash

(***************************************************************************)
(* C25. classifyCommand normalizes write_file to write_to_file and         *)
(* exec_bash to execute_command and leaves every other name as it is; the  *)
(* risk depends on the normalized name only: SAFE for the listed safe      *)
(* names and the prefixes read_ and list, DESTRUCTIVE for the listed       *)
(* destructive names and the prefixes write and delete, SAFE otherwise.    *)
(***************************************************************************)
SafeByPolicy(name) ==
    \/ name \in {"read_file", "stat", "list", "list_files", "read_command_output"}
    \/ StartsWith(name, "read_")
    \/ StartsWith(name, "list")

DestructiveByPolicy(name) ==
    \/ name \in {"write_to_file", "delete", "execute_command", "apply_diff", "apply_patch",
                 "edit", "search_and_replace", "search_replace", "edit_file"}
    \/ StartsWith(name, "write")
    \/ StartsWith(name, "delete")

C25_ClassifierPolicy ==
    (IsSome(fnInput) /\ IsSome(fnOutput)) =>
        LET toolName == Get(fnInput).toolName
            out == Get(fnOutput)
            name == out.normalizedToolName
        IN  /\ name = (CASE toolName = "write_file" -> "write_to_file"
                         [] toolName = "exec_bash" -> "execute_command"
                         [] OTHER -> toolName)
            /\ SafeByPolicy(name) => out.risk = "SAFE"
            /\ DestructiveByPolicy(name) => out.risk = "DESTRUCTIVE"
            /\ (~SafeByPolicy(name) /\ ~DestructiveByPolicy(name)) => out.risk = "SAFE"
            /\ \A p \in ClassifiedPayloads :
                   LET again == classifyCommand(toolName, p)
                   IN  /\ again.risk = out.risk
                       /\ again.normalizedToolName = name
                       /\ p = Get(fnInput).payload => again = out

\* a name that only the prefix delete classifies has been found DESTRUCTIVE
C25_Witness ==
    /\ IsSome(fnInput) /\ IsSome(fnOutput)
    /\ Get(fnInput).toolName = "delete_file"
    /\ Get(fnOutput).risk = "DESTRUCTIVE"

(***************************************************************************)
(* Scope globs against relative paths                                      *)
(***************************************************************************)
\* a sequence of characters that are neither "*" nor "/"
PlainSegment(seg) == \A i \in 1..Len(seg) : seg[i] \notin {"*", "/"}

\* a glob without "*": every character of it stands for itself
Literal(glob) == \A i \in 1..Len(glob) : glob[i] # "*"

(***************************************************************************)
(* C26. A scope glob matches whole relative paths only.  A glob without    *)
(* "*" matches exactly the path equal to it; seg/** matches the paths      *)
(* below seg; "**" between two segments also matches no segment, so        *)
(* seg/**/seg matches seg/seg; and seg/* matches seg/ followed by          *)
(* characters other than "/" and nothing else.                             *)
(***************************************************************************)
C26_GlobsMatchWholePaths ==
    (IsSome(fnInput) /\ IsSome(fnOutput)) =>
        LET glob == Get(fnInput).glob
            p == Get(fnInput).relativePath
            matched == Get(fnOutput) = "true"
        IN  /\ Literal(glob) => (matched <=> p = glob)
            /\ glob = <<"a", "/", "*", "*">> =>
                   (matched <=> Len(p) >= 2 /\ SubSeq(p, 1, 2) = <<"a", "/">>)
            /\ (glob = <<"a", "/", "*", "*", "/", "a">> /\ p = <<"a", "/", "a">>) => matched
            /\ glob = <<"a", "/", "*">> =>
                   (matched <=> /\ Len(p) >= 2
                                /\ SubSeq(p, 1, 2) = <<"a", "/">>
                                /\ PlainSegment(SubSeq(p, 3, Len(p))))

(***************************************************************************)
(* Pre-hooks that throw                                                    *)
(***************************************************************************)
\* the places in the events of a call where a pre-hook registered under one of
\* the names threw
ThrowsOf(cr, names) ==
    {k \in 1..Len(cr.events) :
        /\ cr.events[k][1] = "throw"
        /\ cr.events[k][2] \in names
        /\ cr.events[k][2] \in SeqToSet(HookNames(cr.preSnap))}

\* what was pushed for the pre-hooks and the denial: all but the warnings for post-hooks
NotWarning(msg) == msg.type # "hook_warning"
PushesBeforePost(cr) == SelectSeq(cr.pushes, NotWarning)

\* the engine has handled the exceptions thrown so far
ErrorsHandled(cr) == cr.pc \notin {"preErr", "postErr"} /\ cr.hpc # "thrown"

(***************************************************************************)
(* C27. When a pre-hook registered under a critical name throws, the chain *)
(* is denied: no later pre-hook and no execute closure starts, exactly one *)
(* HOOK_INTERNAL_ERROR tool_error is pushed, and the engine pushes no      *)
(* denial reason after it.                                                 *)
(***************************************************************************)
C27_CriticalThrowDenies ==
    \A c \in CallIds :
        LET cr == calls[c]
        IN  \A k \in ThrowsOf(cr, CRITICAL_PRE_HOOKS) :
                /\ \A j \in (k + 1)..Len(cr.events) :
                       cr.events[j][2] \in SeqToSet(HookNames(cr.postSnap))
                /\ ~Executed(cr)
                /\ ErrorsHandled(cr) =>
                       /\ ~cr.allowed
                       /\ PushesBeforePost(cr) =
                              <<[Msg("tool_error", "HOOK_INTERNAL_ERROR") EXCEPT
                                    !.hook_name = Some(cr.events[k][2])]>>

\* a call is over in which the second of three pre-hooks, registered under a
\* critical name, threw after the first, not critical, had thrown as well
C27_Witness ==
    /\ Done(calls[1])
    /\ Len(calls[1].preSnap) = 3
    /\ calls[1].preSnap[1].name = "preA"
    /\ calls[1].preSnap[2].name = "scopeAndLockPreHook"
    /\ calls[1].preSnap[3].fn = "denyFn"
    /\ ThrowsOf(calls[1], CRITICAL_PRE_HOOKS) = {4}

\* a registered test hook that denies the call when it runs: it returns
\* allow = false, or it throws under a critical name
Denies(entry) ==
    \/ entry.fn \in {"denyFn", "denyNoReasonFn", "denyEmptyReasonFn", "denyReportedFn"}
    \/ entry.fn = "throwFn" /\ entry.name \in CRITICAL_PRE_HOOKS

\* the place of the first registered pre-hook that denies, Len + 1 if none does
FirstDenier(reg) ==
    IF \E i \in 1..Len(reg) : Denies(reg[i])
    THEN CHOOSE i \in 1..Len(reg) : Denies(reg[i]) /\ \A j \in 1..(i - 1) : ~Denies(reg[j])
    ELSE Len(reg) + 1

\* the pre-hooks a call has started, in the order of their start
PreStarted(cr) ==
    SelectSeq(StepNames(cr.events), LAMBDA n : n \in SeqToSet(HookNames(cr.preSnap)))

(***************************************************************************)
(* C28. When a pre-hook registered under a name that is not critical       *)
(* throws, handleError is notified once for it, the pre-hooks after it run *)
(* in registration order, and the call is allowed and the execute closure  *)
(* runs exactly when none of the other pre-hooks denies.                   *)
(***************************************************************************)
C28_NonCriticalThrowContinues ==
    \A c \in CallIds :
        LET cr == calls[c]
            names == HookNames(cr.preSnap)
            throws == ThrowsOf(cr, SeqToSet(names) \ CRITICAL_PRE_HOOKS)
            first == FirstDenier(cr.preSnap)
            ran == IF first > Len(names) THEN Len(names) ELSE first
        IN  throws # {} =>
                /\ \A k \in throws :
                       ErrorsHandled(cr) =>
                           Count(cr.handled, <<"pre-hook", cr.events[k][2]>>) = 1
                /\ PreStarted(cr) = SubSeq(names, 1, Len(PreStarted(cr)))
                /\ Done(cr) =>
                       /\ PreStarted(cr) = SubSeq(names, 1, ran)
                       /\ cr.allowed <=> first > Len(names)
                       /\ Executed(cr) <=> first > Len(names)

\* a call is over in which the first of three pre-hooks threw under the name
\* preA, the two after it ran and the closure was invoked
C28_Witness ==
    /\ Done(calls[1])
    /\ Len(calls[1].preSnap) = 3
    /\ calls[1].preSnap[1] = HookEntry("preA", "throwFn")
    /\ Len(PreStarted(calls[1])) = 3
    /\ calls[1].handled = <<<<"pre-hook", "preA">>>>
    /\ Executed(calls[1])

(***************************************************************************)
(* The reason the engine pushes for a denied call                          *)
(***************************************************************************)
\* the texts pushed in a call: the denial reasons, which the engine pushes
ReasonsPushed(cr) == SelectSeq(cr.pushes, LAMBDA msg : msg.type = "text")

\* the registered pre-hook whose decision denies the call
Denier(cr) == cr.preSnap[FirstDenier(cr.preSnap)]

DeniedCall(cr) == Done(cr) /\ FirstDenier(cr.preSnap) <= Len(cr.preSnap)

\* the decision of the denier carries a reason that is a text and not empty
CarriesReason(entry) == entry.fn \in {"denyFn", "denyReportedFn"}

\* the decision of the denier has alreadyReported = true
AlreadyReported(entry) ==
    \/ entry.fn = "denyReportedFn"
    \/ entry.fn = "throwFn" /\ entry.name \in CRITICAL_PRE_HOOKS

(***************************************************************************)
(* C29. On a denied call the engine pushes the denial reason exactly once  *)
(* if and only if the denying decision carries a textual reason and was    *)
(* not already reported; when the decision has alreadyReported = true, or  *)
(* carries no reason, the engine pushes nothing.                           *)
(***************************************************************************)
C29_ReasonPushedIffCarried ==
    \A c \in CallIds :
        LET cr == calls[c]
        IN  DeniedCall(cr) =>
                IF CarriesReason(Denier(cr)) /\ ~AlreadyReported(Denier(cr))
                THEN Len(ReasonsPushed(cr)) = 1
                ELSE ReasonsPushed(cr) = <<>>

(***************************************************************************)
(* C29, amended. On a denied call whose denying decision was not already   *)
(* reported the engine pushes exactly once: the reason of the decision     *)
(* when it carries one, and the text "Blocked by pre-hook '<name>'." when  *)
(* it carries none; it pushes nothing when the decision has                *)
(* alreadyReported = true or when its reason is the empty string.          *)
(***************************************************************************)
C29_ReasonOrDefaultPushed ==
    \A c \in CallIds :
        LET cr == calls[c]
            fn == Denier(cr).fn
        IN  DeniedCall(cr) =>
                ReasonsPushed(cr) =
                    (CASE fn = "denyFn" -> <<Msg("text", "blocked by test hook")>>
                       [] fn = "denyNoReasonFn" ->
                            <<[Msg("text", "Blocked by pre-hook") EXCEPT
                                  !.hook_name = Some(Denier(cr).name)]>>
                       [] OTHER -> <<>>)

\* a call is over that a pre-hook denied without a reason, and the engine has
\* pushed its own text
C29_Witness ==
    /\ DeniedCall(calls[1])
    /\ Denier(calls[1]).fn = "denyNoReasonFn"
    /\ Len(calls[1].pushes) = 1
    /\ calls[1].pushes[1].code = "Blocked by pre-hook"

(***************************************************************************)
(* Post-hooks that throw                                                   *)
(***************************************************************************)
\* the places in the events of a call where a post-hook threw
PostThrows(cr) ==
    {k \in 1..Len(cr.events) :
        /\ cr.events[k][1] = "throw"
        /\ cr.events[k][2] \in SeqToSet(HookNames(cr.postSnap))}

\* the post-hooks a call has started, in the order of their start
PostStarted(cr) ==
    SelectSeq(StepNames(cr.events), LAMBDA n : n \in SeqToSet(HookNames(cr.postSnap)))

(***************************************************************************)
(* C30. When a post-hook throws, the exception is caught: handleError is   *)
(* notified for it, one hook_warning with code HOOK_INTERNAL_ERROR is      *)
(* pushed for it, every post-hook after it still runs, the execute closure *)
(* is not invoked again, and the call ends with the allowed, result and    *)
(* error it had when the post-hooks began.                                 *)
(***************************************************************************)
C30_PostHookThrowContained ==
    \A c \in CallIds :
        LET cr == calls[c]
        IN  \A k \in PostThrows(cr) :
                LET name == cr.events[k][2]
                IN  /\ ErrorsHandled(cr) =>
                           /\ Count(cr.handled, <<"post-hook", name>>) = 1
                           /\ Count(cr.pushes, [Msg("hook_warning", "HOOK_INTERNAL_ERROR") EXCEPT
                                                   !.hook_name = Some(name)]) = 1
                    /\ \A j \in (k + 1)..Len(cr.events) : cr.events[j][2] # "execute"
                    /\ Starts(cr, "execute") <= 1
                    /\ Done(cr) =>
                           /\ PostStarted(cr) = HookNames(cr.postSnap)
                           /\ cr.allowed = cr.postSeen[1].allowed
                           /\ cr.result = cr.postSeen[1].result
                           /\ cr.error = cr.postSeen[1].error
                           /\ cr.outcome = (IF IsSome(cr.postSeen[1].error) THEN "throw" ELSE "return")
                           /\ Executed(cr) <=> cr.allowed

\* a call is over in which the first of two post-hooks threw after the closure
\* had returned, and the second ran
C30_Witness ==
    /\ Done(calls[1])
    /\ Len(calls[1].postSnap) = 2
    /\ PostThrows(calls[1]) # {}
    /\ calls[1].postSnap[1].fn = "throwFn"
    /\ calls[1].postSnap[2].fn = "okFn"
    /\ PostStarted(calls[1]) = HookNames(calls[1].postSnap)
    /\ calls[1].allowed
    /\ IsSome(calls[1].result)
    /\ calls[1].outcome = "return"

(***************************************************************************)
(* C31. When the human approves the scope expansion asked for an           *)
(* out-of-scope file, the gate goes on as if the file had matched: if the  *)
(* payload carries an observed_content_hash and an existing affected file  *)
(* does not hash to it, the call is still denied with STALE_FILE and the   *)
(* execute closure does not run.                                           *)
(***************************************************************************)
\* the human approved the expansion the call asked for
ExpansionWasApproved(cr) == GatedCall(cr) /\ cr.expansionApproved

C31_ApprovedExpansionStillLocks ==
    \A c \in CallIds :
        LET cr == calls[c]
        IN  (/\ ExpansionWasApproved(cr)
             /\ IsSome(cr.payload.observed_content_hash)
             /\ Trim(Get(cr.payload.observed_content_hash)) # ""
             /\ SomeFileDiffers(cr, Trim(Get(cr.payload.observed_content_hash))))
            => DeniedAsStale(cr)

(***************************************************************************)
(* C36. The scope gate returns allow for a mutating call with an active    *)
(* intent, a working directory and affected files only if, when it         *)
(* returns, every affected file matches a glob of the effective scope: the *)
(* owned_scope declared for the intent followed by the expansions approved *)
(* for it. An approved expansion that does not cover the out-of-scope file *)
(* does not let the file through.                                          *)
(***************************************************************************)
C36_AllowOnlyIfAllFilesInScope ==
    \A c \in CallIds :
        LET cr == calls[c]
        IN  (/\ GatedCall(cr)
             /\ Len(AffectedFiles(cr)) > 0
             /\ GateReturned(cr)
             /\ cr.decision = Allow)
            => \A i \in 1..Len(AffectedFiles(cr)) : InScope(cr, AffectedFiles(cr)[i])

(***************************************************************************)
(* C32. The approved-scope-expansion set only grows, and it changes only   *)
(* in a step in which the human approved an expansion request: the globs   *)
(* of the request are added under the intent of the approving call and     *)
(* under no other intent. A call that met an out-of-scope file and whose   *)
(* request was rejected, dismissed, absent or empty leaves the set as it   *)
(* was and is denied with SCOPE_VIOLATION.                                 *)
(***************************************************************************)
\* call c is at the dialog and leaves it in this step with an approval
ApprovesNow(c) ==
    /\ calls[c].hpc = "ask_expansion"
    /\ ~calls[c].expansionApproved
    /\ calls'[c].expansionApproved

ExpansionsGrowOnApprovalOnly ==
    \A i \in DOMAIN approvedScopeExpansions :
        /\ IsPrefix(approvedScopeExpansions[i], approvedScopeExpansions'[i])
        /\ approvedScopeExpansions'[i] # approvedScopeExpansions[i]
           => \E c \in CallIds :
                 /\ ApprovesNow(c)
                 /\ calls[c].session.intent = Some(i)
                 /\ SeqToSet(approvedScopeExpansions'[i]) =
                       SeqToSet(approvedScopeExpansions[i])
                       \cup SeqToSet(Get(calls[c].payload.request_scope_expansion).additional_globs)

\* the gate of the call found an affected file out of scope and no approval
\* was given: the request was absent or empty, or the human refused it
RefusedExpansion(cr) ==
    /\ GatedCall(cr)
    /\ Done(cr)
    /\ cr.fileIdx > 0
    /\ ~cr.expansionApproved

C32_ExpansionsGrowOnApprovalOnly ==
    /\ [][ExpansionsGrowOnApprovalOnly]_vars
    /\ [](\A c \in CallIds :
             RefusedExpansion(calls[c])
             => /\ ~calls[c].allowed
                /\ ~Executed(calls[c])
                /\ PushCodes(calls[c]) = <<"SCOPE_VIOLATION">>)

\* one agent's request was approved under INT-001, the other agent's request
\* under INT-002 was refused, and INT-002 has gained nothing
C32_Witness ==
    \E c1 \in CallIds : \E c2 \in CallIds \ {c1} :
        /\ Done(calls[c1])
        /\ calls[c1].expansionApproved
        /\ calls[c1].session.intent = Some("INT-001")
        /\ approvedScopeExpansions["INT-001"] = <<GlobB>>
        /\ RefusedExpansion(calls[c2])
        /\ calls[c2].session.intent = Some("INT-002")
        /\ IsSome(calls[c2].payload.request_scope_expansion)
        /\ approvedScopeExpansions["INT-002"] = <<>>

(***************************************************************************)
(* C33. Filesystem and parse errors met while evidence is gathered are     *)
(* treated as absence: when active_intents.yaml is missing or cannot be    *)
(* parsed, or intent_map.md is missing or cannot be read, no exception     *)
(* leaves the hook that gathers, so the engine handles no hook error and   *)
(* pushes no HOOK_INTERNAL_ERROR, neither as tool_error nor as             *)
(* hook_warning.                                                           *)
(***************************************************************************)
\* the hooks of the call that ended with an exception
HooksThatThrew(cr) ==
    {cr.events[i][2] : i \in {k \in 1..Len(cr.events) :
                                 cr.events[k][1] = "throw" /\ cr.events[k][2] # "execute"}}

C33_EvidenceErrorsAreAbsence ==
    \A c \in CallIds :
        UnderDefaultChain(calls[c])
        => /\ HooksThatThrew(calls[c]) = {}
           /\ calls[c].handled = <<>>
           /\ CountPush(calls[c], "HOOK_INTERNAL_ERROR") = 0

(***************************************************************************)
(* C35. Under the default chain the execute closure of a call classified   *)
(* DESTRUCTIVE is invoked only after the human answered Approve to the     *)
(* dialog of hitlPreHook in that same call: after a Reject, a dismissal or *)
(* an exception inside hitlPreHook the closure is not invoked.             *)
(***************************************************************************)
Destructive(cr) == Started(cr) /\ Classification(cr).risk = "DESTRUCTIVE"

\* the event that starts the closure comes after the end of hitlPreHook
ApprovedBeforeExecute(cr) ==
    /\ cr.response = Some("Approve")
    /\ Count(cr.events, <<"end", "hitlPreHook">>) = 1
    /\ FirstAt(cr.events, <<"end", "hitlPreHook">>) < FirstAt(cr.events, <<"start", "execute">>)

C35_DestructiveNeedsApproval ==
    \A c \in CallIds :
        LET cr == calls[c]
        IN  (UnderDefaultChain(cr) /\ Destructive(cr))
            => /\ Executed(cr) => ApprovedBeforeExecute(cr)
               /\ (IsSome(cr.response) /\ Get(cr.response) \in Refusals) => ~Executed(cr)
               /\ ThrowsOf(cr, {"hitlPreHook"}) # {} => ~Executed(cr)

\* a destructive call under an alias, denied because hitlPreHook threw
C35_Witness ==
    \E c \in CallIds :
        LET cr == calls[c]
        IN  /\ UnderDefaultChain(cr)
            /\ Destructive(cr)
            /\ Done(cr)
            /\ normalizeToolName(cr.toolName) # cr.toolName
            /\ ThrowsOf(cr, {"hitlPreHook"}) # {}
            /\ ~cr.allowed

(***************************************************************************)
(* C38. A governance hook fails closed under whatever name it was          *)
(* registered: if the function blockIfNoIntent, scopeAndLockPreHook or     *)
(* hitlPreHook throws during a call, the call is denied and the execute    *)
(* closure does not run, also when the function was registered under       *)
(* another name, such as scopeAndLock.                                     *)
(***************************************************************************)
GovernanceFns == {"blockIfNoIntent", "scopeAndLockPreHook", "hitlPreHook"}

\* a pre-hook of the call whose function is a governance function threw
GovernanceFnThrew(cr) ==
    \E k \in 1..Len(cr.events) : \E i \in 1..Len(cr.preSnap) :
        /\ cr.events[k] = <<"throw", cr.preSnap[i].name>>
        /\ cr.preSnap[i].fn \in GovernanceFns

C38_FailClosedWhateverTheName ==
    \A c \in CallIds :
        GovernanceFnThrew(calls[c])
        => /\ ~Executed(calls[c])
           /\ Done(calls[c]) => ~calls[c].allowed

(***************************************************************************)
(* C39. If handleError or pushToolResult itself throws or rejects while    *)
(* the engine reports the failure of a hook, executeTool still completes   *)
(* its phases: every post-hook runs, and executeTool does not reject with  *)
(* the exception of the capability.                                        *)
(***************************************************************************)
C39_CapabilityFailureContained ==
    \A c \in CallIds :
        LET cr == calls[c]
        IN  (Done(cr) /\ IsSome(cr.capabilityThrew))
            => /\ \A i \in 1..Len(cr.postSnap) : Starts(cr, cr.postSnap[i].name) = 1
               /\ cr.error # Some("capability error")

(***************************************************************************)
(* C40. executeTool and the default pre-hooks leave the payload the caller *)
(* submitted unchanged: during and after the pre-hook phase the payload    *)
(* object has the keys and the values it had when executeTool was entered. *)
(***************************************************************************)
C40_PayloadUnchanged ==
    \A c \in CallIds :
        UnderDefaultChain(calls[c]) => calls[c].payload = calls[c].payloadSnap

(***************************************************************************)
(* C37. Scope authorization is decided on the location a path resolves to: *)
(* for every affected path, also a relative one with ".." segments, the    *)
(* scope gate allows only if the resolved path of the file, taken from the *)
(* working directory, matches the effective scope; so the execute closure  *)
(* of an allowed call writes no file outside the scope.                    *)
(***************************************************************************)
ResolvesInScope(cr, affectedFile) ==
    matchesAnyGlob(ResolvedPath(Get(cr.session.cwd), affectedFile), EffectiveScope(cr))

C37_ScopeDecidedOnResolvedPath ==
    \A c \in CallIds :
        LET cr == calls[c]
        IN  (GatedCall(cr) /\ Len(AffectedFiles(cr)) > 0)
            => /\ (GateReturned(cr) /\ cr.decision = Allow)
                  => \A i \in 1..Len(AffectedFiles(cr)) : ResolvesInScope(cr, AffectedFiles(cr)[i])
               /\ \A f \in DOMAIN files :
                     files[f] # cr.filesSnap[f] => matchesAnyGlob(f, EffectiveScope(cr))

(***************************************************************************)
(* SpecCache: the loaders of .orchestration and their one-entry caches,    *)
(* for two workspaces whose files are rewritten while loads are in flight  *)
(***************************************************************************)
MaxMtime == 2
Loaders == {"first", "second"}
LoaderFns == {"readIntentScopes", "readIntentDependencies", "loadActiveIntents"}

\* the file a loader reads for a working directory
TargetOf(fn, cwd) ==
    IF fn = "readIntentDependencies" THEN MapPath(cwd) ELSE IntentsPath(cwd)

\* what the text written to the file of cwd at time mtimeMs parses to; every
\* text of every workspace differs from every other
TextOf(fn, cwd, mtimeMs) ==
    IF fn = "readIntentDependencies"
    THEN (IF cwd = Cwd THEN "INT-001" ELSE "INT-002") :> <<"INT-00" \o ToString(mtimeMs + 2)>>
    ELSE (IF cwd = Cwd THEN "INT-001" ELSE "INT-002") :> <<<<"v", ToString(mtimeMs), "/", "*", "*">>>>

FileOf(fn, cwd, mtimeMs, broken) ==
    IF fn = "readIntentDependencies"
    THEN IF broken THEN UnreadableMapFile(mtimeMs) ELSE MapFile(mtimeMs, TextOf(fn, cwd, mtimeMs))
    ELSE IF broken THEN MalformedIntentsFile(mtimeMs) ELSE IntentsFile(mtimeMs, TextOf(fn, cwd, mtimeMs))

\* fs.readFile and the parse of its text: what a loader makes of a file
Broken(fn, file) == IF fn = "readIntentDependencies" THEN file.unreadable ELSE file.malformed
Parsed(fn, file) == IF fn = "readIntentDependencies" THEN file.intentDeps ELSE file.ownedScopeById

\* the module-level cache of each loader, and what its entry holds
CacheOf(fn) ==
    CASE fn = "readIntentScopes" -> intentScopeCache
      [] fn = "readIntentDependencies" -> intentMapCache
      [] OTHER -> handshake.cache
CachedData(fn, entry) ==
    CASE fn = "readIntentScopes" -> entry.ownedScopeById
      [] fn = "readIntentDependencies" -> entry.intentDeps
      [] OTHER -> entry.intentsById

\* a loader that is not running
IdleLoad(fn) ==
    [fn |-> fn, pc |-> "idle", cwd |-> Cwd, statMtime |-> 0,
     startMtime |-> 0, endMtime |-> 0, result |-> None, threw |-> FALSE]

MtimeOf(p) == IF IsSome(disk[p]) THEN Get(disk[p]).mtimeMs ELSE 0

loadUnchanged ==
    UNCHANGED <<preHooks, postHooks, defaultHooksRegistered, lastRegistration,
                approvedScopeExpansions, files, ledger, calls, task, fnInput, fnOutput>>

\* the loader returns data to its caller
LoadReturns(l, data) ==
    loads' = [loads EXCEPT ![l] = [@ EXCEPT !.pc = "done", !.result = Some(data),
                                            !.endMtime = MtimeOf(TargetOf(loads[l].fn, loads[l].cwd))]]

\* the loader rejects
LoadRejects(l) ==
    loads' = [loads EXCEPT ![l] = [@ EXCEPT !.pc = "done", !.threw = TRUE,
                                            !.endMtime = MtimeOf(TargetOf(loads[l].fn, loads[l].cwd))]]

\* a loader is called for a working directory and awaits fs.stat
StartLoad(l, cwd) ==
    /\ loads[l].pc \in {"idle", "done"}
    /\ loads' = [loads EXCEPT ![l] = [IdleLoad(@.fn) EXCEPT !.pc = "stat", !.cwd = cwd,
                                          !.startMtime = MtimeOf(TargetOf(loads[l].fn, cwd))]]
    /\ UNCHANGED <<intentScopeCache, intentMapCache, handshake, disk>>
    /\ loadUnchanged

\* fs.stat has answered: an absent file is an empty map for readIntentScopes
\* and readIntentDependencies and a rejection for loadActiveIntents; an entry
\* of this path and mtime is returned; otherwise fs.readFile is awaited
LoadStatDone(l) ==
    LET ld == loads[l]
        filePath == TargetOf(ld.fn, ld.cwd)
        file == disk[filePath]
    IN  /\ ld.pc = "stat"
        /\ IF ~IsSome(file)
           THEN IF ld.fn = "loadActiveIntents" THEN LoadRejects(l) ELSE LoadReturns(l, <<>>)
           ELSE IF CacheHit(CacheOf(ld.fn), filePath, Get(file))
                THEN LoadReturns(l, CachedData(ld.fn, Get(CacheOf(ld.fn))))
           ELSE loads' = [loads EXCEPT ![l] = [@ EXCEPT !.pc = "read",
                                                        !.statMtime = Get(file).mtimeMs]]
        /\ UNCHANGED <<intentScopeCache, intentMapCache, handshake, disk>>
        /\ loadUnchanged

\* fs.readFile has answered: a text that cannot be read or parsed rejects;
\* otherwise the parsed data is stored under the path and the mtime fs.stat
\* had reported, and returned
LoadReadDone(l) ==
    LET ld == loads[l]
        filePath == TargetOf(ld.fn, ld.cwd)
        file == disk[filePath]
    IN  /\ ld.pc = "read"
        /\ IF ~IsSome(file) \/ Broken(ld.fn, Get(file))
           THEN /\ LoadRejects(l)
                /\ UNCHANGED <<intentScopeCache, intentMapCache, handshake>>
           ELSE LET data == Parsed(ld.fn, Get(file))
                IN  /\ LoadReturns(l, data)
                    /\ intentScopeCache' =
                          IF ld.fn = "readIntentScopes"
                          THEN Some([filePath |-> filePath, mtimeMs |-> ld.statMtime,
                                     ownedScopeById |-> data])
                          ELSE intentScopeCache
                    /\ intentMapCache' =
                          IF ld.fn = "readIntentDependencies"
                          THEN Some([filePath |-> filePath, mtimeMs |-> ld.statMtime,
                                     intentDeps |-> data])
                          ELSE intentMapCache
                    /\ handshake' =
                          IF ld.fn = "loadActiveIntents"
                          THEN [handshake EXCEPT !.cache =
                                   Some([filePath |-> filePath, mtimeMs |-> ld.statMtime,
                                         intentsById |-> data])]
                          ELSE handshake
        /\ UNCHANGED disk
        /\ loadUnchanged

\* somebody rewrites the file of a workspace: a later mtime and another text,
\* which may be one that does not parse
ModifyFile(fn, cwd, broken) ==
    LET p == TargetOf(fn, cwd)
    IN  /\ IsSome(disk[p])
        /\ Get(disk[p]).mtimeMs < MaxMtime
        /\ disk' = [disk EXCEPT ![p] = Some(FileOf(fn, cwd, Get(disk[p]).mtimeMs + 1, broken))]
        /\ UNCHANGED <<intentScopeCache, intentMapCache, handshake, loads>>
        /\ loadUnchanged

\* both workspaces have their file, or only Cwd has; the loaders of a
\* behaviour are calls of one function, since the caches are per function
InitCache ==
    /\ preHooks = <<>>
    /\ postHooks = <<>>
    /\ defaultHooksRegistered = FALSE
    /\ lastRegistration = None
    /\ approvedScopeExpansions = NoExpansions
    /\ ledger = <<>>
    /\ intentScopeCache = None
    /\ intentMapCache = None
    /\ task = FreshTask
    /\ handshake = IdleHandshake
    /\ fnInput = None
    /\ fnOutput = None
    /\ files = [f \in Paths |-> Some(0)]
    /\ calls = [c \in {1} |-> IdleCall]
    /\ \E fn \in LoaderFns, other \in BOOLEAN :
          /\ loads = [l \in Loaders |-> IdleLoad(fn)]
          /\ disk = [p \in FilePaths |->
                        IF p = TargetOf(fn, Cwd) THEN Some(FileOf(fn, Cwd, 1, FALSE))
                        ELSE IF p = TargetOf(fn, CwdB) /\ other THEN Some(FileOf(fn, CwdB, 1, FALSE))
                        ELSE None]

NextCache ==
    \/ \E l \in Loaders, cwd \in Workspaces : StartLoad(l, cwd)
    \/ \E l \in Loaders : LoadStatDone(l)
    \/ \E l \in Loaders : LoadReadDone(l)
    \/ \E l \in Loaders, cwd \in Workspaces, broken \in BOOLEAN :
          ModifyFile(loads[l].fn, cwd, broken)

SpecCache == InitCache /\ [][NextCache]_vars

\* every entry of a cache that is of its file's present mtime holds what that
\* file parses to
CacheCoherent ==
    \A fn \in LoaderFns :
        LET cache == CacheOf(fn)
        IN  (IsSome(cache) /\ IsSome(disk[Get(cache).filePath])
                /\ Get(disk[Get(cache).filePath]).mtimeMs = Get(cache).mtimeMs
                /\ ~Broken(fn, Get(disk[Get(cache).filePath])))
            => CachedData(fn, Get(cache)) = Parsed(fn, Get(disk[Get(cache).filePath]))

\* the data a load may return: a text its workspace's file held between the
\* call and the return, or the empty map when there was no file
LoadAnswers(ld) ==
    IF ld.startMtime = 0 THEN {<<>>}
    ELSE {TextOf(ld.fn, ld.cwd, m) : m \in ld.startMtime..ld.endMtime}

\* C34. The caches of readIntentScopes, readIntentDependencies and
\* loadActiveIntents are keyed by path and mtime: a load returns the data of
\* the requested workspace's file as of its current mtime (a text the file
\* held between the call and the return, hence the current text when the file
\* was not rewritten meanwhile), the first load after the mtime changes
\* reflects the new content (an entry of the file's present mtime holds the
\* file's present text), and an entry of another path is never returned,
\* also when loads for two workspaces interleave at their awaits.
C34_CacheKeyedByPathAndMtime ==
    /\ CacheCoherent
    /\ \A l \in DOMAIN loads :
          (loads[l].pc = "done" /\ IsSome(loads[l].result))
              => Get(loads[l].result) \in LoadAnswers(loads[l])

\* both loaders have returned, one for each workspace; the second was called
\* after Cwd's file was rewritten while the cache held the entry of the other
\* workspace, and returned the new text
C34_Witness ==
    /\ DOMAIN loads = Loaders
    /\ loads["first"].pc = "done" /\ loads["first"].cwd = CwdB
    /\ loads["first"].result = Some(TextOf(loads["first"].fn, CwdB, 1))
    /\ loads["second"].pc = "done" /\ loads["second"].cwd = Cwd
    /\ loads["second"].startMtime = 2
    /\ loads["second"].result = Some(TextOf(loads["second"].fn, Cwd, 2))
    /\ IsSome(CacheOf(loads["second"].fn))
    /\ Get(CacheOf(loads["second"].fn)).filePath = TargetOf(loads["second"].fn, Cwd)

====
